---------------------------- MODULE Spec2Model ----------------------------
(* Task execution engine of Decomplicator: the Task / TaskSequence state   *)
(* machine (task_base), the concrete task kinds of task_impl.py that the   *)
(* properties below talk about, and the two GUI controllers that start and *)
(* cancel a root task (page_setup_progress.py, page_actions.py).           *)
(*                                                                         *)
(* One worker thread executes the root task and, for sequences, the        *)
(* subtasks in order.  The controlling (GUI) thread, the child process of  *)
(* an ExecuteCommandTask and its two reader threads run concurrently with  *)
(* the worker; every action below is one step of one of them.              *)
EXTENDS Naturals, Integers, Sequences, FiniteSets, TLC

\* ------------------------------------------------------------------ bounds
\* number of dependency tables of the project configuration
MaxDeps == 2
\* number of commands of a project action
MaxCmds == 2

\* ------------------------------------------------------------------ tasks
\* task_base.Status
Status == {"NOT_STARTED", "WORKING", "SUCCESS", "FAILURE", "CANCELLED"}

Terminal == {"SUCCESS", "FAILURE", "CANCELLED"}

RootSeq == <<"root", 0>>
DepsSeq == <<"deps", 0>>
RepoTask == <<"repo", 0>>
RomCopy == <<"romcopy", 0>>
ProjectFile == <<"projectfile", 0>>
ActionSeq == <<"action", 0>>
NoTask == <<"none", 0>>

Dep(i) == <<"dep", i>>
Download(i) == <<"download", i>>
Extract(i) == <<"extract", i>>
FileOps(i) == <<"fileops", i>>
Cmd(i) == <<"cmd", i>>

\* the task trees the program builds: the setup tree of get_setup_task
\* (n dependencies, of which those in "missing" still need setting up;
\* from_repo: the repository exists already, the flow of
\* SetupFromRepoProgressPage, otherwise the new-project flow of
\* SetupFromTemplateProgressPage; rom: the base ROM is in the project) and
\* the action tree of ExecuteActionTask (n commands)
Trees ==
    {[shape |-> "setup", n |-> n, missing |-> m, from_repo |-> f, rom |-> r] :
        n \in 0..MaxDeps, m \in SUBSET (1..MaxDeps),
        f \in BOOLEAN, r \in BOOLEAN}
    \cup {[shape |-> "action", n |-> n, missing |-> {}, from_repo |-> FALSE,
           rom |-> FALSE] : n \in 0..MaxCmds}

VARIABLES
    tree,              \* the tree constructed before start (fixed afterwards)
    status,            \* Task.status
    cancel_requested,  \* Task.cancel_requested
    pc,                \* position of the worker thread inside each task
    idx,               \* TaskSequence: index of the current subtask
    exit,              \* how run_impl left the body
    notified,          \* last status announced through signal_status
    lastNote,          \* kind of the last notification the task emitted
    runs,              \* number of times the body of the task was entered
    observed,          \* sequence: cancellation was observed
    preFailed,         \* SetupDependenciesTaskSequence: pre-subtask work failed
    cancelSets,        \* number of times the flag was set
    proc,              \* ExecuteCommandTask: child process state
    exitStatus,        \* child process exit status
    pipeOut,           \* the stdout pipe holds lines not yet read
    pipeErr,           \* the stderr pipe holds lines not yet read
    stderrConnected,   \* signal_stderr still has receivers
    interrupted,       \* CTRL_BREAK_EVENT was sent to the child
    envDir,            \* environment directory: "absent", "dir", "ready"
    ui,                \* state of the page / dialog owning the root task
    startResult,       \* outcome of the last start() call on the root
    startedAgain,      \* start() was called on a root already started
    earlyCancel,       \* cancel was requested before any subtask had begun
    progress,          \* value of the last report_progress call
    destination,       \* DownloadAndValidateTask: content of the destination
    cached,            \* content of the destination when the body was entered
    network_calls,     \* number of urlretrieve calls
    file_source,       \* run_impl local: "downloaded" or "cached"
    file_hash,         \* run_impl local: the digest compared to expected_hash
    file_size,         \* urlretrieve: Content-Length, -1 if there is none
    remaining,         \* bytes the server still delivers
    read,              \* urlretrieve: bytes read so far
    block_count,       \* urlretrieve: blocks read so far
    raised,            \* the exception urlretrieve was left with, if any
    archive,           \* FileExtractionTask: what the archive file holds
    member_count,      \* number of members of the archive
    extracted,         \* members extracted so far
    reports,           \* report_progress calls of the extraction so far
    polls,             \* is_cancelled calls of the extraction so far
    output,            \* state of the output directory
    file_operations,   \* FileOperationSequenceTask: the list of operations
    op_index,          \* position of the loop in the list, counted from 1
    applied,           \* operations whose filesystem calls completed
    attempted,         \* operations for which a filesystem call was made
    fo_polls,          \* is_cancelled calls of the loop so far
    failed_op,         \* the operation that met a filesystem error, or 0
    done_exists,       \* the done list of the environment exists
    done_text,         \* content of the done list, a sequence of characters
    marked,            \* identifiers passed to mark_project_dependency_done
    phases,            \* SetupGitRepoTask: the phases begun so far, in order
    clone_exit,        \* exit status p.wait() returned for the clone
    copy_result,       \* how copytree ended
    checkout_exit,     \* exit status task_run_command returned
    commands,          \* ExecuteActionTask: the commands of the action
    out_pipe,          \* lines of each child's stdout pipe not yet read
    err_pipe,          \* lines of each child's stderr pipe not yet read
    written,           \* number of lines the children wrote so far
    emitted,           \* notifications the command tasks emitted, in order
    posted,            \* notifications queued for the thread of the receiver
    relayed,           \* notifications the action task emitted, in order
    disposed,          \* deleteLater() was called on the owner of the task
    page,              \* QWizard: the page shown
    history,           \* QWizard: the pages gone through, for Back
    setup_context,     \* gui_common.SetupContext
    project_context,   \* gui_common.ProjectContext.project
    baserom_exists,    \* SetupDirectoryPage.baserom_exists
    disk,              \* what exists in the project opened and in the cache
    setup_task,        \* the tree get_setup_task built for the progress page
    requires_setup,    \* what existing_project_requires_setup returned
    child_remaining,   \* task_run_command: output the child has yet to write
    pipe_fill,         \* task_run_command: output held by the stdout pipe
    logged,            \* task_run_command: output read from the pipe
    returned,          \* task_run_command: the value returned
    cleanup_task,      \* new-project page: status of each cleanup task made
    page_queue,        \* new-project page: signals queued for its thread
    cancel_enabled,    \* new-project page: the Cancel button is enabled
    root_handled,      \* new-project page: the root's signal was handled
    gui                \* new-project page: what its thread is doing

\* state of the body of a DownloadAndValidateTask
dlVars ==
    <<destination, cached, network_calls, file_source, file_hash, file_size,
      remaining, read, block_count, raised>>

\* state of the body of a FileExtractionTask
exVars == <<archive, member_count, extracted, reports, polls, output>>

\* state of the body of a FileOperationSequenceTask
foVars ==
    <<file_operations, op_index, applied, attempted, fo_polls, failed_op>>

\* the done list of files.py and the calls made on it
mkVars == <<done_exists, done_text, marked>>

\* state of the body of a SetupGitRepoTask
rpVars == <<phases, clone_exit, copy_result, checkout_exit>>

\* the notifications of an ExecuteActionTask and the disposal of its dialog
acVars ==
    <<commands, out_pipe, err_pipe, written, emitted, posted, relayed,
      disposed>>

\* the wizard, its two contexts and the filesystem they look at
wzVars ==
    <<page, history, setup_context, project_context, baserom_exists, disk,
      setup_task, requires_setup>>

\* the child process of task_run_command and its pipe
hpVars == <<child_remaining, pipe_fill, logged, returned>>

\* the progress page of the new-project flow and its cleanup tasks
clVars == <<cleanup_task, page_queue, cancel_enabled, root_handled, gui>>

\* state of the detailed leaf bodies
leafVars ==
    <<progress, dlVars, exVars, foVars, mkVars, rpVars, acVars, wzVars,
      hpVars, clVars>>

\* state of the task engine, its controllers and the child processes
engineVars ==
    <<tree, status, cancel_requested, pc, idx, exit, notified, lastNote,
      runs, observed, preFailed, cancelSets, proc, exitStatus, pipeOut,
      pipeErr, stderrConnected, interrupted, envDir,
      ui, startResult, startedAgain, earlyCancel>>

vars == <<engineVars, leafVars>>

\* the task objects constructed for the tree (get_setup_task creates the
\* three tasks of a dependency only where it needs setting up; the worker
\* never reaches a task that is not in a sequence)
Tasks ==
    IF tree.shape = "action"
    THEN {ActionSeq} \cup {Cmd(i) : i \in 1..tree.n}
    ELSE {RootSeq, DepsSeq, RepoTask, RomCopy, ProjectFile}
            \cup {Dep(i) : i \in 1..tree.n}
            \cup {Download(i) : i \in 1..tree.n}
            \cup {Extract(i) : i \in 1..tree.n}
            \cup {FileOps(i) : i \in 1..tree.n}

taskVars ==
    <<status, cancel_requested, pc, idx, exit, notified, lastNote, runs,
      observed, preFailed, cancelSets>>

procVars ==
    <<proc, exitStatus, pipeOut, pipeErr,
      stderrConnected, interrupted>>

uiVars == <<ui>>

startVars == <<startResult, startedAgain>>

\* ------------------------------------------------------------- tree shape
\* the root task of the tree (the one a worker thread is dedicated to)
Root == IF tree.shape = "setup" THEN RootSeq ELSE ActionSeq

\* get_setup_task: the three tasks of a dependency are added only if its
\* directory does not exist.  (variant: they are added in any case)
NeedsSetup_always(i) == TRUE

NeedsSetup(i) == i \in tree.missing

\* get_setup_task: the three tasks added for a dependency to set up
\* (variant: the extraction is added before the download)
DependencySteps_extractFirst(i) == <<Extract(i), Download(i), FileOps(i)>>

\* get_setup_task: the three tasks added, in this order, for a dependency
\* to set up
DependencySteps(i) == <<Download(i), Extract(i), FileOps(i)>>

\* TaskSequence.subtasks, in insertion order
Subtasks(t) ==
    CASE t[1] = "root" /\ tree.shape = "setup" ->
            <<DepsSeq>>
                \o (IF tree.from_repo THEN <<>> ELSE <<RepoTask>>)
                \o (IF tree.rom THEN <<>> ELSE <<RomCopy>>)
                \o (IF tree.from_repo THEN <<>> ELSE <<ProjectFile>>)
      [] t[1] = "deps" /\ tree.shape = "setup" -> [i \in 1..tree.n |-> Dep(i)]
      [] t[1] = "dep" /\ tree.shape = "setup" ->
            IF NeedsSetup(t[2])
            THEN DependencySteps(t[2])
            ELSE <<>>
      [] t[1] = "action" /\ tree.shape = "action" ->
            [i \in 1..tree.n |-> Cmd(i)]
      [] OTHER -> <<>>

IsSequence(t) == t[1] \in {"root", "deps", "dep", "action"}

\* the sequence a task was added to
Parent(t) ==
    CASE t[1] \in {"deps", "repo", "romcopy", "projectfile"} -> RootSeq
      [] t[1] = "dep" -> DepsSeq
      [] t[1] \in {"download", "extract", "fileops"} -> Dep(t[2])
      [] t[1] = "cmd" -> ActionSeq
      [] OTHER -> NoTask

RECURSIVE Descendants(_)
Descendants(t) ==
    LET subs == {Subtasks(t)[i] : i \in 1..Len(Subtasks(t))}
    IN  subs \cup UNION {Descendants(c) : c \in subs}

\* first position of the worker inside run_impl of a task
BodyEntry(t) ==
    CASE t[1] = "deps" -> "pre"
      [] t[1] \in {"root", "dep", "action"} -> "check"
      [] t[1] = "cmd" -> "spawn"
      [] OTHER -> "body"

\* a progress value: None (indeterminate) or a fraction num / den
NoProgress == [kind |-> "none", num |-> 0, den |-> 1]

Indeterminate == [kind |-> "indeterminate", num |-> 0, den |-> 1]

Fraction(n, d) == [kind |-> "fraction", num |-> n, den |-> d]

\* no detailed leaf body is being executed
DownloadIdle ==
    /\ destination = "absent"
    /\ cached = "absent"
    /\ network_calls = 0
    /\ file_source = "none"
    /\ file_hash = "none"
    /\ file_size = 0
    /\ remaining = 0
    /\ read = 0
    /\ block_count = 0
    /\ raised = "none"

ExtractionIdle ==
    /\ archive = "none"
    /\ member_count = 0
    /\ extracted = 0
    /\ reports = 0
    /\ polls = 0
    /\ output = "absent"

FileOpsIdle ==
    /\ file_operations = <<>>
    /\ op_index = 1
    /\ applied = <<>>
    /\ attempted = {}
    /\ fo_polls = 0
    /\ failed_op = 0

\* no dependency has been marked: the done list does not exist
MarkerIdle ==
    /\ done_exists = FALSE
    /\ done_text = <<>>
    /\ marked = <<>>

\* no exit status yet
NoExit == -1

RepoIdle ==
    /\ phases = <<>>
    /\ clone_exit = NoExit
    /\ copy_result = "none"
    /\ checkout_exit = NoExit

\* number of lines the child processes of an action write in all
MaxLines == 2

ActionIdle ==
    /\ commands = <<>>
    /\ out_pipe = [i \in 1..MaxCmds |-> <<>>]
    /\ err_pipe = [i \in 1..MaxCmds |-> <<>>]
    /\ written = 0
    /\ emitted = <<>>
    /\ posted = <<>>
    /\ relayed = <<>>
    /\ disposed = FALSE

\* SetupContext.__init__
NewSetupContext ==
    [setup_from_repo |-> FALSE, project_path |-> "none",
     template_config |-> "none"]

\* no tree was built
NoSetupTask ==
    [shape |-> "none", n |-> 0, missing |-> {}, from_repo |-> FALSE,
     rom |-> FALSE]

WizardIdle ==
    /\ page = "START"
    /\ history = <<>>
    /\ setup_context = NewSetupContext
    /\ project_context = "none"
    /\ baserom_exists = FALSE
    /\ disk = [env |-> FALSE, deps |-> {}, rom |-> FALSE, cached |-> FALSE,
               dependencies |-> 0]
    /\ setup_task = NoSetupTask
    /\ requires_setup = "none"

\* no command helper is running
HelperIdle ==
    /\ child_remaining = 0
    /\ pipe_fill = 0
    /\ logged = 0
    /\ returned = NoExit

\* the new-project progress page is not shown
CleanupIdle ==
    /\ cleanup_task = <<>>
    /\ page_queue = <<>>
    /\ cancel_enabled = TRUE
    /\ root_handled = FALSE
    /\ gui = "idle"

LeafIdle ==
    /\ progress = NoProgress
    /\ DownloadIdle
    /\ ExtractionIdle
    /\ FileOpsIdle
    /\ MarkerIdle
    /\ RepoIdle
    /\ ActionIdle
    /\ WizardIdle
    /\ HelperIdle
    /\ CleanupIdle

\* the engine after the tree tr was constructed and before its root is
\* started
EngineInit(tr) ==
    /\ tree = tr
    /\ status = [t \in Tasks |-> "NOT_STARTED"]
    /\ cancel_requested = [t \in Tasks |-> FALSE]
    /\ pc = [t \in Tasks |-> "idle"]
    /\ idx = [t \in Tasks |-> 1]
    /\ exit = [t \in Tasks |-> "none"]
    /\ notified = [t \in Tasks |-> "NOT_STARTED"]
    /\ lastNote = [t \in Tasks |-> "none"]
    /\ runs = [t \in Tasks |-> 0]
    /\ observed = [t \in Tasks |-> FALSE]
    /\ preFailed = [t \in Tasks |-> FALSE]
    /\ cancelSets = [t \in Tasks |-> 0]
    /\ proc = [t \in Tasks |-> "none"]
    /\ exitStatus = [t \in Tasks |-> 0]
    /\ pipeOut = [t \in Tasks |-> FALSE]
    /\ pipeErr = [t \in Tasks |-> FALSE]
    /\ stderrConnected = [t \in Tasks |-> TRUE]
    /\ interrupted = [t \in Tasks |-> FALSE]
    /\ envDir \in {"absent", "ready"}
    /\ ui = "init"
    /\ startResult = "none"
    /\ startedAgain = FALSE
    /\ earlyCancel = FALSE

Init ==
    /\ \E tr \in {x \in Trees : x.missing \subseteq 1..x.n} : EngineInit(tr)
    /\ LeafIdle

\* ---------------------------------------------------------- Task (engine)
\* start(): a task may be started once; any further call is a contract
\* violation.  (variant: a finished thread is silently run again)
StartOutcome_restart(p) ==
    IF p \in {"idle", "done"} THEN "launch" ELSE "contract_violation"

\* (variant: a further call is silently ignored)
StartOutcome_noop(p) ==
    IF p = "idle" THEN "launch" ELSE "ignored"

StartOutcome(p) ==
    IF p = "idle" THEN "launch" ELSE "contract_violation"

\* Task.run: the terminal status chosen for each way the body can exit
\* (variant: the cancellation signal is treated as an ordinary failure)
StatusOfExit_cancelAsFailure(e) ==
    CASE e = "return" -> "SUCCESS"
      [] e = "cancel" -> "FAILURE"
      [] OTHER -> "FAILURE"

StatusOfExit(e) ==
    CASE e = "return" -> "SUCCESS"
      [] e = "cancel" -> "CANCELLED"
      [] OTHER -> "FAILURE"

\* Task.is_cancelled
is_cancelled(t) == cancel_requested[t]

\* the tasks whose flag a cancel() on t sets: t and everything below it
CancelTargets(t) == {t} \cup Descendants(t)

\* Task.start, called by the controlling thread
start(t) ==
    /\ startResult' = StartOutcome(pc[t])
    /\ startedAgain' = (pc[t] # "idle")
    /\ pc' = IF StartOutcome(pc[t]) = "launch"
             THEN [pc EXCEPT ![t] = "launched"]
             ELSE pc

\* Task.cancel, called by the controlling thread
cancel(t) ==
    /\ LET targets == CancelTargets(t) IN
       /\ cancel_requested' =
            [u \in Tasks |-> IF u \in targets THEN TRUE
                             ELSE cancel_requested[u]]
       /\ cancelSets' =
            [u \in Tasks |-> IF u \in targets THEN cancelSets[u] + 1
                             ELSE cancelSets[u]]
    /\ earlyCancel' =
         (earlyCancel
            \/ (/\ pc[t] # "idle"
                /\ status[t] \notin Terminal
                /\ Len(Subtasks(t)) >= 1
                /\ \A i \in 1..Len(Subtasks(t)) :
                      status[Subtasks(t)[i]] = "NOT_STARTED"))

\* Task.run, first half: the worker thread of the root begins executing
run(t) ==
    /\ t = Root
    /\ pc[t] = "launched"
    /\ status' = [status EXCEPT ![t] = "WORKING"]
    /\ notified' = [notified EXCEPT ![t] = "WORKING"]
    /\ lastNote' = [lastNote EXCEPT ![t] = "status"]
    /\ runs' = [runs EXCEPT ![t] = runs[t] + 1]
    /\ pc' = [pc EXCEPT ![t] = BodyEntry(t)]
    /\ idx' = [idx EXCEPT ![t] = 1]
    /\ UNCHANGED <<leafVars, tree, cancel_requested, exit, observed, preFailed,
                   cancelSets, procVars, envDir, uiVars, startVars,
                   earlyCancel>>

\* Task.run, second half: the body has exited; the task settles, announces
\* its status and returns to its caller (the owning sequence, if any)
settle(t) ==
    /\ pc[t] = "settle"
    /\ status' = [status EXCEPT ![t] = StatusOfExit(exit[t])]
    /\ notified' = [notified EXCEPT ![t] = StatusOfExit(exit[t])]
    /\ lastNote' = [lastNote EXCEPT ![t] = "status"]
    /\ pc' = [u \in Tasks |->
                IF u = t THEN "done"
                ELSE IF u = Parent(t) /\ pc[u] = "wait" THEN "adopt"
                ELSE pc[u]]
    /\ UNCHANGED <<leafVars, tree, cancel_requested, idx, exit, runs, observed,
                   preFailed, cancelSets, procVars, envDir, uiVars,
                   startVars, earlyCancel>>

\* an exception that is neither of the two signals is not caught by run
\* nor by the sequences above it: it leaves the worker thread, the
\* top-level handler reports a fatal error and the run is aborted
abort(t) ==
    /\ pc[t] = "raise"
    /\ pc' = [u \in Tasks |->
                IF pc[u] \in {"idle", "done"} THEN pc[u] ELSE "aborted"]
    /\ ui' = "aborted"
    /\ UNCHANGED <<leafVars, tree, status, cancel_requested, idx, exit, notified,
                   lastNote, runs, observed, preFailed, cancelSets, procVars,
                   envDir, startVars, earlyCancel>>

\* -------------------------------------------------------- TaskSequence
\* how a sequence invokes a subtask: run() executes it on the calling
\* thread.  (variant: start() hands it to a thread of its own)
SubtaskInvocation_start == "start"

SubtaskInvocation == "run"

\* what the sequence does with the status its subtask settled at
\* (variant: a failed subtask does not stop the sequence)
AdoptExit_ignoreFailure(st) ==
    CASE st = "CANCELLED" -> "cancel"
      [] OTHER -> "continue"

\* (variant: a failed subtask is reported as cancelled)
AdoptExit_failureAsCancel(st) ==
    CASE st = "CANCELLED" -> "cancel"
      [] st = "FAILURE" -> "cancel"
      [] OTHER -> "continue"

AdoptExit(st) ==
    CASE st = "CANCELLED" -> "cancel"
      [] st = "FAILURE" -> "failure"
      [] OTHER -> "continue"

\* TaskSequence.run_impl: top of the loop, the flag is polled before the
\* next subtask
TaskSequence_check(t) ==
    /\ IsSequence(t)
    /\ pc[t] = "check"
    /\ IF idx[t] > Len(Subtasks(t))
       THEN /\ exit' = [exit EXCEPT ![t] = "return"]
            /\ pc' = [pc EXCEPT ![t] = "settle"]
            /\ UNCHANGED observed
       ELSE IF is_cancelled(t)
       THEN /\ exit' = [exit EXCEPT ![t] = "cancel"]
            /\ pc' = [pc EXCEPT ![t] = "settle"]
            /\ observed' = [observed EXCEPT ![t] = TRUE]
       ELSE /\ pc' = [pc EXCEPT ![t] = "call"]
            /\ UNCHANGED <<exit, observed>>
    /\ UNCHANGED <<leafVars, tree, status, cancel_requested, idx, notified, lastNote,
                   runs, preFailed, cancelSets, procVars, envDir, uiVars,
                   startVars, earlyCancel>>

\* TaskSequence.run_impl: the subtask is run; it becomes WORKING
TaskSequence_call(t) ==
    /\ IsSequence(t)
    /\ pc[t] = "call"
    /\ LET c == Subtasks(t)[idx[t]] IN
       /\ status' = [status EXCEPT ![c] = "WORKING"]
       /\ notified' = [notified EXCEPT ![c] = "WORKING"]
       /\ lastNote' = [lastNote EXCEPT ![c] = "status"]
       /\ runs' = [runs EXCEPT ![c] = runs[c] + 1]
       /\ pc' = [pc EXCEPT ![c] = BodyEntry(c),
                           ![t] = IF SubtaskInvocation = "run"
                                  THEN "wait" ELSE "adopt"]
    /\ UNCHANGED <<leafVars, tree, cancel_requested, idx, exit, observed, preFailed,
                   cancelSets, procVars, envDir, uiVars, startVars,
                   earlyCancel>>

\* TaskSequence.run_impl: the subtask has returned; its status decides
TaskSequence_adopt(t) ==
    /\ IsSequence(t)
    /\ pc[t] = "adopt"
    /\ LET o == AdoptExit(status[Subtasks(t)[idx[t]]]) IN
       IF o = "continue"
       THEN /\ idx' = [idx EXCEPT ![t] = idx[t] + 1]
            /\ pc' = [pc EXCEPT ![t] = "check"]
            /\ UNCHANGED <<exit, observed>>
       ELSE /\ exit' = [exit EXCEPT ![t] = o]
            /\ pc' = [pc EXCEPT ![t] = "settle"]
            /\ observed' = [observed EXCEPT ![t] = (observed[t] \/ o = "cancel")]
            /\ UNCHANGED idx
    /\ UNCHANGED <<leafVars, tree, status, cancel_requested, notified, lastNote, runs,
                   preFailed, cancelSets, procVars, envDir, uiVars,
                   startVars, earlyCancel>>

\* ------------------------------------- SetupDependenciesTaskSequence
\* run_impl before super().run_impl(): an OSError of mkdir or write_text
\* becomes the failure signal.  (variant: the write error is swallowed)
PreOutcome_ignoreWriteError(mk, wr) ==
    IF mk = "oserror" THEN "failure" ELSE "proceed"

PreOutcome(mk, wr) ==
    IF mk = "oserror" THEN "failure"
    ELSE IF wr = "oserror" THEN "failure"
    ELSE "proceed"

SetupDependencies_pre(t) ==
    /\ pc[t] = "pre"
    /\ \E mk \in {"ok", "oserror"}, wr \in {"ok", "oserror"} :
         /\ mk = "oserror" => wr = "oserror"
         /\ envDir' = IF mk = "oserror" THEN envDir
                      ELSE IF wr = "oserror"
                      THEN (IF envDir = "absent" THEN "dir" ELSE envDir)
                      ELSE "ready"
         /\ preFailed' = [preFailed EXCEPT ![t] = (wr = "oserror")]
         /\ IF PreOutcome(mk, wr) = "failure"
            THEN /\ exit' = [exit EXCEPT ![t] = "failure"]
                 /\ pc' = [pc EXCEPT ![t] = "settle"]
            ELSE /\ pc' = [pc EXCEPT ![t] = "check"]
                 /\ UNCHANGED exit
    /\ UNCHANGED <<leafVars, tree, status, cancel_requested, idx, notified, lastNote,
                   runs, observed, cancelSets, procVars, uiVars, startVars,
                   earlyCancel>>

\* ------------------------------------------------------------ leaf tasks
LeafKinds ==
    {"download", "extract", "fileops", "repo", "romcopy", "projectfile"}

\* the leaf bodies that poll the flag and raise TaskCancelledException;
\* FileCopyTask.run_impl never does
PollsFlag(t) == t[1] # "romcopy"

\* report_progress of a leaf body
Leaf_progress(t) ==
    /\ t[1] \in LeafKinds
    /\ pc[t] = "body"
    /\ lastNote' = [lastNote EXCEPT ![t] = "progress"]
    /\ UNCHANGED <<leafVars, tree, status, cancel_requested, pc, idx, exit, notified,
                   runs, observed, preFailed, cancelSets, procVars, envDir,
                   uiVars, startVars, earlyCancel>>

\* the leaf bodies with a call outside every try block that can raise
\* OSError (mkdir, unlink, rmtree, Popen, the marker file);
\* FileCopyTask.run_impl has none
RaisesRaw(t) == t[1] # "romcopy"

\* a leaf body exits: normal return, TaskFailureException, having seen the
\* flag TaskCancelledException, or an exception that is neither
Leaf_finish(t) ==
    /\ t[1] \in LeafKinds
    /\ pc[t] = "body"
    /\ \E o \in {"return", "failure", "cancel", "raise"} :
         /\ o = "cancel" => (PollsFlag(t) /\ is_cancelled(t))
         /\ o = "raise" => RaisesRaw(t)
         /\ exit' = [exit EXCEPT ![t] = o]
         /\ pc' = [pc EXCEPT ![t] = IF o = "raise" THEN "raise" ELSE "settle"]
    /\ UNCHANGED <<leafVars, tree, status, cancel_requested, idx, notified, lastNote,
                   runs, observed, preFailed, cancelSets, procVars, envDir,
                   uiVars, startVars, earlyCancel>>

\* ------------------------------------------------------ ExecuteCommandTask
\* a notification of a command task; ExecuteActionTask.__init__ connects
\* the three signals of each command to its own, so the action task
\* re-emits it
Relay(ln, t, kind) == [ln EXCEPT ![t] = kind, ![Parent(t)] = kind]

\* run_impl: signal_new_command, Popen, the two reader threads are started
ExecuteCommand_spawn(t) ==
    /\ pc[t] = "spawn"
    /\ lastNote' = Relay(lastNote, t, "new_command")
    /\ proc' = [proc EXCEPT ![t] = "running"]
    /\ pc' = [pc EXCEPT ![t] = "poll"]
    /\ UNCHANGED <<leafVars, tree, status, cancel_requested, idx, exit, notified, runs,
                   observed, preFailed, cancelSets, exitStatus, pipeOut,
                   pipeErr, stderrConnected, interrupted,
                   envDir, uiVars, startVars, earlyCancel>>

\* run_impl: the polling loop sees the flag while the child is running:
\* signal_stderr is disconnected, then the interrupt is sent
ExecuteCommand_interrupt(t) ==
    /\ pc[t] = "poll"
    /\ proc[t] = "running"
    /\ is_cancelled(t)
    /\ stderrConnected' = [stderrConnected EXCEPT ![t] = FALSE]
    /\ interrupted' = [interrupted EXCEPT ![t] = TRUE]
    /\ pc' = [pc EXCEPT ![t] = "pwait"]
    /\ UNCHANGED <<leafVars, tree, status, cancel_requested, idx, exit, notified,
                   lastNote, runs, observed, preFailed, cancelSets, proc,
                   exitStatus, pipeOut, pipeErr, envDir,
                   uiVars, startVars, earlyCancel>>

\* run_impl, after p.wait(): the exit of the body (variant: the exit status
\* is examined before the cancellation flag)
CommandOutcome_statusFirst(cancelled, exit_status) ==
    IF exit_status # 0 THEN "failure"
    ELSE IF cancelled THEN "cancel"
    ELSE "return"

\* run_impl, after p.wait(): the exit of the body
CommandOutcome(cancelled, exit_status) ==
    IF cancelled THEN "cancel"
    ELSE IF exit_status # 0 THEN "failure"
    ELSE "return"

\* run_impl: the child has exited (seen by poll() or by wait()); the reader
\* threads are not joined
ExecuteCommand_finish(t) ==
    /\ pc[t] \in {"poll", "pwait"}
    /\ proc[t] = "exited"
    /\ exit' = [exit EXCEPT ![t] = CommandOutcome(is_cancelled(t), exitStatus[t])]
    /\ pc' = [pc EXCEPT ![t] = "settle"]
    /\ UNCHANGED <<leafVars, tree, status, cancel_requested, idx, notified, lastNote,
                   runs, observed, preFailed, cancelSets, procVars, envDir,
                   uiVars, startVars, earlyCancel>>

\* the child process writes lines to its empty stdout pipe
Process_stdout(t) ==
    /\ proc[t] = "running"
    /\ ~pipeOut[t]
    /\ pipeOut' = [pipeOut EXCEPT ![t] = TRUE]
    /\ UNCHANGED <<leafVars, tree, taskVars, proc, exitStatus, pipeErr,
                   stderrConnected, interrupted, envDir, uiVars, startVars,
                   earlyCancel>>

\* the child process writes lines to its empty stderr pipe
Process_stderr(t) ==
    /\ proc[t] = "running"
    /\ ~pipeErr[t]
    /\ pipeErr' = [pipeErr EXCEPT ![t] = TRUE]
    /\ UNCHANGED <<leafVars, tree, taskVars, proc, exitStatus, pipeOut,
                   stderrConnected, interrupted, envDir, uiVars, startVars,
                   earlyCancel>>

\* the child process exits, with any exit status
Process_exit(t) ==
    /\ proc[t] = "running"
    /\ \E s \in {0, 1} : exitStatus' = [exitStatus EXCEPT ![t] = s]
    /\ proc' = [proc EXCEPT ![t] = "exited"]
    /\ UNCHANGED <<leafVars, tree, taskVars, pipeOut, pipeErr,
                   stderrConnected, interrupted, envDir, uiVars, startVars,
                   earlyCancel>>

\* pipe_to_signal on p.stdout: the reader thread emits the lines it finds
\* in the pipe
pipe_to_signal_stdout(t) ==
    /\ pipeOut[t]
    /\ pipeOut' = [pipeOut EXCEPT ![t] = FALSE]
    /\ lastNote' = Relay(lastNote, t, "stdout")
    /\ UNCHANGED <<leafVars, tree, status, cancel_requested, pc, idx, exit, notified,
                   runs, observed, preFailed, cancelSets, proc, exitStatus,
                   pipeErr, stderrConnected, interrupted,
                   envDir, uiVars, startVars, earlyCancel>>

\* pipe_to_signal on p.stderr: the reader thread emits the lines it finds
\* in the pipe; after disconnect() the signal has no receiver
pipe_to_signal_stderr(t) ==
    /\ pipeErr[t]
    /\ pipeErr' = [pipeErr EXCEPT ![t] = FALSE]
    /\ lastNote' = IF stderrConnected[t] THEN Relay(lastNote, t, "stderr")
                   ELSE lastNote
    /\ UNCHANGED <<leafVars, tree, status, cancel_requested, pc, idx, exit, notified,
                   runs, observed, preFailed, cancelSets, proc, exitStatus,
                   pipeOut, stderrConnected, interrupted,
                   envDir, uiVars, startVars, earlyCancel>>

\* ------------------------------------------------- controlling (GUI) thread
\* SetupBaseProgressPage.begin_setup: the root of the setup tree is started
begin_setup ==
    /\ tree.shape = "setup"
    /\ ui = "init"
    /\ ui' = "running"
    /\ start(Root)
    /\ UNCHANGED <<leafVars, tree, status, cancel_requested, idx, exit, notified,
                   lastNote, runs, observed, preFailed, cancelSets, procVars,
                   envDir, earlyCancel>>

\* ProjectActionConsoleOutputDialog.show: the action task is started
show ==
    /\ tree.shape = "action"
    /\ ui = "init"
    /\ ui' = "running"
    /\ start(Root)
    /\ UNCHANGED <<leafVars, tree, status, cancel_requested, idx, exit, notified,
                   lastNote, runs, observed, preFailed, cancelSets, procVars,
                   envDir, earlyCancel>>

\* a caller invokes start() on a task that was started before
start_again ==
    /\ ui \notin {"init", "closing", "aborted"}
    /\ ~startedAgain
    /\ start(Root)
    /\ UNCHANGED <<leafVars, tree, status, cancel_requested, idx, exit, notified,
                   lastNote, runs, observed, preFailed, cancelSets, procVars,
                   envDir, uiVars, earlyCancel>>

\* SetupBaseProgressPage.cancel_button: the outer test of the handler
\* (variant: the test is missing)
CancelButtonGuard_always == TRUE

CancelButtonGuard == ~is_cancelled(Root)

\* SetupBaseProgressPage.cancel_button (variant: the status of the root is
\* not looked at, cancel is called whenever the flag is not set)
cancel_button_anyStatus ==
    /\ tree.shape = "setup"
    /\ ui = "running"
    /\ IF CancelButtonGuard
       THEN /\ cancel(Root)
            /\ UNCHANGED ui
       ELSE UNCHANGED <<ui, cancel_requested, cancelSets, earlyCancel>>
    /\ UNCHANGED <<leafVars, tree, status, pc, idx, exit, notified, lastNote, runs,
                   observed, preFailed, procVars, envDir, startVars>>

\* SetupBaseProgressPage.cancel_button: the Cancel button is pressed
cancel_button ==
    /\ tree.shape = "setup"
    /\ ui = "running"
    /\ IF CancelButtonGuard /\ status[Root] = "WORKING"
       THEN /\ cancel(Root)
            /\ UNCHANGED ui
       ELSE IF CancelButtonGuard /\ status[Root] = "FAILURE"
       THEN /\ ui' = "restarted"
            /\ UNCHANGED <<cancel_requested, cancelSets, earlyCancel>>
       ELSE UNCHANGED <<ui, cancel_requested, cancelSets, earlyCancel>>
    /\ UNCHANGED <<leafVars, tree, status, pc, idx, exit, notified, lastNote, runs,
                   observed, preFailed, procVars, envDir, startVars>>

\* ProjectActionConsoleOutputDialog.closeEvent, up to the call of wait()
closeEvent ==
    /\ tree.shape = "action"
    /\ ui = "running"
    /\ IF status[Root] \in {"WORKING", "NOT_STARTED"}
       THEN cancel(Root)
       ELSE UNCHANGED <<cancel_requested, cancelSets, earlyCancel>>
    /\ ui' = "closing"
    /\ UNCHANGED <<leafVars, tree, status, pc, idx, exit, notified, lastNote, runs,
                   observed, preFailed, procVars, envDir, startVars>>

\* ProjectActionConsoleOutputDialog.closeEvent: wait() returns once the
\* worker thread has finished
wait ==
    /\ ui = "closing"
    /\ pc[Root] = "done"
    /\ ui' = "closed"
    /\ UNCHANGED <<leafVars, tree, taskVars, procVars, envDir, startVars,
                   earlyCancel>>

\* ---------------------------------------------------------- specification
Worker ==
    \E t \in Tasks :
        \/ run(t)
        \/ settle(t)
        \/ abort(t)
        \/ TaskSequence_check(t)
        \/ TaskSequence_call(t)
        \/ TaskSequence_adopt(t)
        \/ SetupDependencies_pre(t)
        \/ Leaf_progress(t)
        \/ Leaf_finish(t)
        \/ ExecuteCommand_spawn(t)
        \/ ExecuteCommand_interrupt(t)
        \/ ExecuteCommand_finish(t)

Environment ==
    \E t \in Tasks :
        \/ Process_stdout(t)
        \/ Process_stderr(t)
        \/ Process_exit(t)
        \/ pipe_to_signal_stdout(t)
        \/ pipe_to_signal_stderr(t)

Controller ==
    \/ begin_setup
    \/ show
    \/ start_again
    \/ cancel_button
    \/ closeEvent
    \/ wait

Next == Worker \/ Environment \/ Controller

Spec == Init /\ [][Next]_vars

\* the scheduler lets the worker thread take its next step, every child
\* process exits in the end, and a wait() that can return does return
Fairness ==
    /\ WF_vars(Worker)
    /\ WF_vars(\E t \in Tasks : Process_exit(t))
    /\ WF_vars(wait)

FairSpec == Init /\ [][Next]_vars /\ Fairness

\* ------------------------------------------------ state inside a leaf body
\* the engine variables that a step inside a leaf body leaves alone
bodyRest ==
    <<tree, status, cancel_requested, idx, notified, lastNote, runs, observed,
      preFailed, cancelSets, procVars, envDir, uiVars, startVars, earlyCancel>>

\* the setup tree of a project with one dependency that still needs setting
\* up, opened from its repository with the base ROM in place
DepTree ==
    [shape |-> "setup", n |-> 1, missing |-> {1}, from_repo |-> TRUE,
     rom |-> TRUE]

RECURSIVE Ancestors(_)
Ancestors(t) ==
    IF Parent(t) = NoTask THEN {} ELSE {Parent(t)} \cup Ancestors(Parent(t))

\* position of a subtask in the sequence it was added to
Index(t) ==
    CHOOSE i \in 1..Len(Subtasks(Parent(t))) : Subtasks(Parent(t))[i] = t

\* the subtasks added to the same sequence before t
Earlier(t) == {Subtasks(Parent(t))[i] : i \in 1..(Index(t) - 1)}

\* the engine when the worker thread, running the tree tr, has just entered
\* the body of the leaf t (of the root or of the first dependency): the
\* sequences above t are WORKING and wait for their subtask, the subtasks
\* before t are SUCCESS
WorkerEntersIn(tr, t, entry) ==
    /\ tree = tr
    /\ status = [u \in Tasks |->
                    IF u \in Ancestors(t) \cup {t} THEN "WORKING"
                    ELSE IF u \in Earlier(t) THEN "SUCCESS"
                    ELSE "NOT_STARTED"]
    /\ notified = status
    /\ cancel_requested = [u \in Tasks |-> FALSE]
    /\ pc = [u \in Tasks |->
                IF u = t THEN entry
                ELSE IF u \in Ancestors(t) THEN "wait"
                ELSE IF u \in Earlier(t) THEN "done"
                ELSE "idle"]
    /\ idx = [u \in Tasks |-> IF u = Parent(t) THEN Index(t) ELSE 1]
    /\ exit = [u \in Tasks |-> IF u \in Earlier(t) THEN "return" ELSE "none"]
    /\ lastNote = [u \in Tasks |->
                      IF status[u] = "NOT_STARTED" THEN "none" ELSE "status"]
    /\ runs = [u \in Tasks |-> IF status[u] = "NOT_STARTED" THEN 0 ELSE 1]
    /\ observed = [u \in Tasks |-> FALSE]
    /\ preFailed = [u \in Tasks |-> FALSE]
    /\ cancelSets = [u \in Tasks |-> 0]
    /\ proc = [u \in Tasks |-> "none"]
    /\ exitStatus = [u \in Tasks |-> 0]
    /\ pipeOut = [u \in Tasks |-> FALSE]
    /\ pipeErr = [u \in Tasks |-> FALSE]
    /\ stderrConnected = [u \in Tasks |-> TRUE]
    /\ interrupted = [u \in Tasks |-> FALSE]
    /\ envDir = "ready"
    /\ ui = "running"
    /\ startResult = "launch"
    /\ startedAgain = FALSE
    /\ earlyCancel = FALSE

WorkerEnters(t, entry) == WorkerEntersIn(DepTree, t, entry)

\* the body of t has been left (by return or by an exception)
BodyExited(t) == pc[t] \in {"settle", "done", "raise", "aborted"}

\* ------------------------------------------------ DownloadAndValidateTask
\* largest Content-Length of a transfer, and the block size of urlretrieve
MaxFileSize == 3

BlockSize == 2

\* Content-Length as urlretrieve passes it to the hook: -1 if there is none
FileSizes == {-1} \cup (0..MaxFileSize)

DownloadTask == Download(1)

\* the leaf-body variables of the other task kinds
dlOthers ==
    <<exVars, foVars, mkVars, rpVars, acVars, wzVars, hpVars, clVars>>

\* run_impl: the download is skipped if the destination exists
\* (variant: the archive is fetched whether or not it is cached)
NeedsDownload_always(dest) == TRUE

NeedsDownload(dest) == dest = "absent"

\* _report_callback: the value handed to report_progress
ReportValue(count, size, total) ==
    IF total <= 0 THEN Indeterminate ELSE Fraction(count * size, total)

\* the except clauses around urlretrieve (variant: the last clause raises
\* the failure signal instead of the exception it caught)
ExceptClause_asFailure(e) ==
    CASE e = "TaskCancelledException" -> "cancel"
      [] OTHER -> "failure"

\* the except clauses around urlretrieve: what is raised after the unlink
ExceptClause(e) ==
    CASE e = "TaskCancelledException" -> "cancel"
      [] e \in {"ContentTooShortError", "ConnectionError", "HTTPError",
                "URLError"} -> "failure"
      [] OTHER -> "raise"

\* the integrity check: does the digest of this content equal expected_hash
Digest(content) ==
    IF content \in {"cached_good", "downloaded_good"} THEN "match"
    ELSE "mismatch"

\* urlretrieve was left with exception e: the matching except clause unlinks
\* the destination (missing_ok) and raises; an OSError of the unlink itself
\* replaces what the clause would have raised
Download_except(t, e) ==
    /\ raised' = e
    /\ \E ul \in {"ok", "oserror"} :
         /\ ul = "oserror" => destination # "absent"
         /\ destination' = IF ul = "ok" THEN "absent" ELSE destination
         /\ exit' = [exit EXCEPT ![t] =
                        IF ul = "oserror" THEN "raise" ELSE ExceptClause(e)]
         /\ pc' = [pc EXCEPT ![t] =
                      IF ul = "oserror" \/ ExceptClause(e) = "raise"
                      THEN "raise" ELSE "settle"]

\* run_impl: the parent directory is created (outside any try block), then
\* the destination is looked up
Download_begin(t) ==
    /\ pc[t] = "dl_begin"
    /\ \E mk \in {"ok", "oserror"} :
         /\ mk = "oserror" => destination = "absent"
         /\ IF mk = "oserror"
            THEN /\ exit' = [exit EXCEPT ![t] = "raise"]
                 /\ pc' = [pc EXCEPT ![t] = "raise"]
                 /\ UNCHANGED file_source
            ELSE IF NeedsDownload(destination)
            THEN /\ pc' = [pc EXCEPT ![t] = "dl_urlopen"]
                 /\ UNCHANGED <<exit, file_source>>
            ELSE /\ file_source' = "cached"
                 /\ pc' = [pc EXCEPT ![t] = "dl_check"]
                 /\ UNCHANGED exit
    /\ UNCHANGED <<bodyRest, progress, destination, cached, network_calls,
                   file_hash, file_size, remaining, read, block_count,
                   raised, dlOthers>>

\* urlretrieve: the URL is opened; the response announces its length
Download_urlopen(t) ==
    /\ pc[t] = "dl_urlopen"
    /\ network_calls' = network_calls + 1
    /\ \/ /\ \E e \in {"HTTPError", "URLError"} : Download_except(t, e)
          /\ UNCHANGED <<file_size, remaining>>
       \/ /\ \E total \in FileSizes :
               /\ file_size' = total
               /\ \E sent \in 0..MaxFileSize :
                    /\ total >= 0 => sent <= total
                    /\ remaining' = sent
          /\ pc' = [pc EXCEPT ![t] = "dl_create"]
          /\ UNCHANGED <<exit, destination, raised>>
    /\ UNCHANGED <<bodyRest, progress, cached, file_source, file_hash, read,
                   block_count, dlOthers>>

\* urlretrieve: the destination is opened for writing and the hook is
\* called for block 0
Download_create(t) ==
    /\ pc[t] = "dl_create"
    /\ \/ /\ Download_except(t, "OSError")
          /\ UNCHANGED <<read, block_count>>
       \/ /\ destination' = "partial"
          /\ read' = 0
          /\ block_count' = 0
          /\ pc' = [pc EXCEPT ![t] = "dl_hook"]
          /\ UNCHANGED <<exit, raised>>
    /\ UNCHANGED <<bodyRest, progress, cached, network_calls, file_source,
                   file_hash, file_size, remaining, dlOthers>>

\* _report_callback(block_count, block_size, file_size)
Download_hook(t) ==
    /\ pc[t] = "dl_hook"
    /\ IF is_cancelled(t)
       THEN /\ Download_except(t, "TaskCancelledException")
            /\ UNCHANGED progress
       ELSE /\ progress' = ReportValue(block_count, BlockSize, file_size)
            /\ pc' = [pc EXCEPT ![t] = "dl_read"]
            /\ UNCHANGED <<exit, destination, raised>>
    /\ UNCHANGED <<bodyRest, cached, network_calls, file_source, file_hash,
                   file_size, remaining, read, block_count, dlOthers>>

\* urlretrieve: one read of block_size bytes; at the end of the stream the
\* number of bytes read is compared with the announced length
Download_read(t) ==
    /\ pc[t] = "dl_read"
    /\ \/ /\ \E e \in {"ConnectionError", "IncompleteRead"} :
               Download_except(t, e)
          /\ UNCHANGED <<remaining, read, block_count, file_source>>
       \/ /\ remaining > 0
          /\ LET n == IF remaining < BlockSize THEN remaining ELSE BlockSize
             IN  /\ remaining' = remaining - n
                 /\ read' = read + n
          /\ block_count' = block_count + 1
          /\ pc' = [pc EXCEPT ![t] = "dl_hook"]
          /\ UNCHANGED <<exit, destination, raised, file_source>>
       \/ /\ remaining = 0
          /\ file_size >= 0 /\ read < file_size
          /\ Download_except(t, "ContentTooShortError")
          /\ UNCHANGED <<remaining, read, block_count, file_source>>
       \/ /\ remaining = 0
          /\ ~(file_size >= 0 /\ read < file_size)
          /\ \E content \in {"downloaded_good", "downloaded_bad"} :
               destination' = content
          /\ file_source' = "downloaded"
          /\ pc' = [pc EXCEPT ![t] = "dl_check"]
          /\ UNCHANGED <<exit, raised, remaining, read, block_count>>
    /\ UNCHANGED <<bodyRest, progress, cached, network_calls, file_hash,
                   file_size, dlOthers>>

\* run_impl: report_progress(None), then the file is read for its digest
Download_check(t) ==
    /\ pc[t] = "dl_check"
    /\ progress' = Indeterminate
    /\ \E rd \in {"ok", "oserror"} :
         IF rd = "oserror"
         THEN /\ exit' = [exit EXCEPT ![t] = "failure"]
              /\ pc' = [pc EXCEPT ![t] = "settle"]
              /\ UNCHANGED file_hash
         ELSE /\ file_hash' = Digest(destination)
              /\ pc' = [pc EXCEPT ![t] = "dl_compare"]
              /\ UNCHANGED exit
    /\ UNCHANGED <<bodyRest, destination, cached, network_calls, file_source,
                   file_size, remaining, read, block_count, raised, dlOthers>>

\* run_impl: a file that fails the check is unlinked (outside any try block)
\* and the failure signal is raised
Download_compare(t) ==
    /\ pc[t] = "dl_compare"
    /\ IF file_hash = "mismatch"
       THEN \E ul \in {"ok", "oserror"} :
              /\ destination' = IF ul = "ok" THEN "absent" ELSE destination
              /\ exit' = [exit EXCEPT ![t] =
                             IF ul = "ok" THEN "failure" ELSE "raise"]
              /\ pc' = [pc EXCEPT ![t] =
                           IF ul = "ok" THEN "settle" ELSE "raise"]
       ELSE /\ exit' = [exit EXCEPT ![t] = "return"]
            /\ pc' = [pc EXCEPT ![t] = "settle"]
            /\ UNCHANGED destination
    /\ UNCHANGED <<bodyRest, progress, cached, network_calls, file_source,
                   file_hash, file_size, remaining, read, block_count,
                   raised, dlOthers>>

\* the worker thread has entered the body of the download task of a
\* dependency; the cache holds nothing, the right archive or a wrong file
DownloadInit ==
    /\ WorkerEnters(DownloadTask, "dl_begin")
    /\ progress = NoProgress
    /\ cached \in {"absent", "cached_good", "cached_bad"}
    /\ destination = cached
    /\ network_calls = 0
    /\ file_source = "none"
    /\ file_hash = "none"
    /\ file_size = 0
    /\ remaining = 0
    /\ read = 0
    /\ block_count = 0
    /\ raised = "none"
    /\ ExtractionIdle
    /\ FileOpsIdle
    /\ MarkerIdle
    /\ RepoIdle
    /\ ActionIdle
    /\ WizardIdle
    /\ HelperIdle
    /\ CleanupIdle

DownloadNext ==
    \/ Download_begin(DownloadTask)
    \/ Download_urlopen(DownloadTask)
    \/ Download_create(DownloadTask)
    \/ Download_hook(DownloadTask)
    \/ Download_read(DownloadTask)
    \/ Download_check(DownloadTask)
    \/ Download_compare(DownloadTask)
    \/ settle(DownloadTask)
    \/ abort(DownloadTask)
    \/ cancel_button

DownloadSpec == DownloadInit /\ [][DownloadNext]_vars

\* ----------------------------------------------------- FileExtractionTask
\* largest number of members of an archive
MaxMembers == 3

ExtractTask == Extract(1)

\* the leaf-body variables of the other task kinds
exOthers ==
    <<dlVars, foVars, mkVars, rpVars, acVars, wzVars, hpVars, clVars>>

\* what the archive file can hold: a sound zip or tar archive, a corrupt
\* one, a tar archive with a member the "tar" filter rejects, or something
\* that is neither
ArchiveKinds == {"zip", "tar", "bad_zip", "bad_tar", "unsafe_tar", "unknown"}

ValidArchive == archive \in {"zip", "tar"}

\* is_zipfile / is_tarfile: the extraction method chosen for the content
ArchiveFormat(a) ==
    CASE a \in {"zip", "bad_zip"} -> "zip"
      [] a \in {"tar", "bad_tar", "unsafe_tar"} -> "tar"
      [] OTHER -> "unrecognised"

\* _extract_zip / with_progress: the value reported before member i
\* (counted from 0) of n.  (variant: the count of members done after it)
ExtractProgress_next(i, n) == Fraction(i + 1, n)

ExtractProgress(i, n) == Fraction(i, n)

\* run_impl: the output directory is removed and created again, outside
\* any try block
Extract_begin(t) ==
    /\ pc[t] = "ex_begin"
    /\ \E fs \in {"ok", "oserror"} :
         IF fs = "oserror"
         THEN /\ exit' = [exit EXCEPT ![t] = "raise"]
              /\ pc' = [pc EXCEPT ![t] = "raise"]
              /\ UNCHANGED output
         ELSE /\ output' = "empty"
              /\ pc' = [pc EXCEPT ![t] = "ex_open"]
              /\ UNCHANGED exit
    /\ UNCHANGED <<bodyRest, progress, archive, member_count, extracted,
                   reports, polls, exOthers>>

\* run_impl: the format is detected and the member list is read
Extract_open(t) ==
    /\ pc[t] = "ex_open"
    /\ IF ArchiveFormat(archive) = "unrecognised"
          \/ archive \in {"bad_zip", "bad_tar"}
       THEN /\ exit' = [exit EXCEPT ![t] = "failure"]
            /\ pc' = [pc EXCEPT ![t] = "settle"]
       ELSE /\ pc' = [pc EXCEPT ![t] = "ex_poll"]
            /\ UNCHANGED exit
    /\ UNCHANGED <<bodyRest, progress, exVars, exOthers>>

\* the loop over the members: it ends after the last member; before each
\* member the flag is polled
Extract_poll(t) ==
    /\ pc[t] = "ex_poll"
    /\ IF extracted = member_count
       THEN /\ exit' = [exit EXCEPT ![t] = "return"]
            /\ pc' = [pc EXCEPT ![t] = "settle"]
            /\ UNCHANGED polls
       ELSE /\ polls' = polls + 1
            /\ IF is_cancelled(t)
               THEN /\ exit' = [exit EXCEPT ![t] = "cancel"]
                    /\ pc' = [pc EXCEPT ![t] = "settle"]
               ELSE /\ pc' = [pc EXCEPT ![t] = "ex_report"]
                    /\ UNCHANGED exit
    /\ UNCHANGED <<bodyRest, progress, archive, member_count, extracted,
                   reports, output, exOthers>>

\* report_progress(i / member_count)
Extract_report(t) ==
    /\ pc[t] = "ex_report"
    /\ progress' = ExtractProgress(extracted, member_count)
    /\ reports' = reports + 1
    /\ pc' = [pc EXCEPT ![t] = "ex_member"]
    /\ UNCHANGED <<bodyRest, exit, archive, member_count, extracted, polls,
                   output, exOthers>>

\* one member is extracted; OSError, BadZipFile, TarError and FilterError
\* become the failure signal
Extract_member(t) ==
    /\ pc[t] = "ex_member"
    /\ \E o \in {"ok", "OSError", "FilterError"} :
         /\ o = "FilterError" => archive = "unsafe_tar"
         /\ IF o = "ok"
            THEN /\ extracted' = extracted + 1
                 /\ output' = IF extracted + 1 = member_count
                              THEN "complete" ELSE "partial"
                 /\ pc' = [pc EXCEPT ![t] = "ex_poll"]
                 /\ UNCHANGED exit
            ELSE /\ exit' = [exit EXCEPT ![t] = "failure"]
                 /\ pc' = [pc EXCEPT ![t] = "settle"]
                 /\ UNCHANGED <<extracted, output>>
    /\ UNCHANGED <<bodyRest, progress, archive, member_count, reports, polls,
                   exOthers>>

\* the worker thread has entered the body of the extraction task of a
\* dependency, after its download task succeeded
ExtractInit ==
    /\ WorkerEnters(ExtractTask, "ex_begin")
    /\ progress = Indeterminate
    /\ DownloadIdle
    /\ archive \in ArchiveKinds
    /\ member_count \in 0..MaxMembers
    /\ extracted = 0
    /\ reports = 0
    /\ polls = 0
    /\ output \in {"absent", "stale"}
    /\ FileOpsIdle
    /\ MarkerIdle
    /\ RepoIdle
    /\ ActionIdle
    /\ WizardIdle
    /\ HelperIdle
    /\ CleanupIdle

ExtractNext ==
    \/ Extract_begin(ExtractTask)
    \/ Extract_open(ExtractTask)
    \/ Extract_poll(ExtractTask)
    \/ Extract_report(ExtractTask)
    \/ Extract_member(ExtractTask)
    \/ settle(ExtractTask)
    \/ abort(ExtractTask)
    \/ cancel_button

ExtractSpec == ExtractInit /\ [][ExtractNext]_vars

\* ---------------------------------------------- FileOperationSequenceTask
\* largest number of operations of a list, and of operands of an operation
MaxOps == 3

MaxOperands == 2

FileOpsTask == FileOps(1)

\* the leaf-body variables of the other task kinds
foOthers ==
    <<dlVars, exVars, mkVars, rpVars, acVars, wzVars, hpVars, clVars>>

\* the first string of an operation, as the project configuration may
\* spell it ("copy" stands for "move" too: the two take the same number of
\* operands and differ only in the filesystem calls made), and what
\* str.lower makes of it
OperationNames == {"copy", "Delete", "link"}

Lower(name) == IF name = "Delete" THEN "delete" ELSE name

\* the operations run_impl has a branch for
OperationKinds == {"copy", "move", "delete"}

\* an operation of the list: its first string and the number of the others
Commands == [name : OperationNames, operands : 0..MaxOperands]

\* arg_count = 1 if operation_name == "delete" else 2
ArgCount(operation_name) == IF operation_name = "delete" THEN 1 ELSE 2

\* the operand count of the command is not the one its kind takes
WrongCount(command) == command.operands # ArgCount(Lower(command.name))

\* the except clause of the loop: an OSError of a filesystem call becomes
\* the failure signal.  (variant: the error is passed over)
FileOpOutcome_ignore(o) == "continue"

FileOpOutcome(o) == IF o = "OSError" THEN "failure" ELSE "continue"

\* the head of the loop: it ends after the last operation; before each
\* operation the flag is polled
FileOps_poll(t) ==
    /\ pc[t] = "fo_poll"
    /\ IF op_index > Len(file_operations)
       THEN /\ exit' = [exit EXCEPT ![t] = "return"]
            /\ pc' = [pc EXCEPT ![t] = "settle"]
            /\ UNCHANGED fo_polls
       ELSE /\ fo_polls' = fo_polls + 1
            /\ IF is_cancelled(t)
               THEN /\ exit' = [exit EXCEPT ![t] = "cancel"]
                    /\ pc' = [pc EXCEPT ![t] = "settle"]
               ELSE /\ pc' = [pc EXCEPT ![t] = "fo_check"]
                    /\ UNCHANGED exit
    /\ UNCHANGED <<bodyRest, progress, file_operations, op_index, applied,
                   attempted, failed_op, foOthers>>

\* args[0].is_file() is evaluated first: without operands it is an
\* IndexError, which no handler of run_impl catches; then the operand
\* count is compared with the one the kind takes
FileOps_check(t) ==
    /\ pc[t] = "fo_check"
    /\ IF file_operations[op_index].operands = 0
       THEN /\ exit' = [exit EXCEPT ![t] = "raise"]
            /\ pc' = [pc EXCEPT ![t] = "raise"]
       ELSE IF WrongCount(file_operations[op_index])
       THEN /\ exit' = [exit EXCEPT ![t] = "failure"]
            /\ pc' = [pc EXCEPT ![t] = "settle"]
       ELSE /\ pc' = [pc EXCEPT ![t] = "fo_apply"]
            /\ UNCHANGED exit
    /\ UNCHANGED <<bodyRest, progress, foVars, foOthers>>

\* the try block: the filesystem calls of a copy, move or delete, any of
\* which may raise OSError; another name has no branch and does nothing
FileOps_apply(t) ==
    /\ pc[t] = "fo_apply"
    /\ IF Lower(file_operations[op_index].name) \notin OperationKinds
       THEN /\ pc' = [pc EXCEPT ![t] = "fo_report"]
            /\ UNCHANGED <<exit, applied, attempted, failed_op>>
       ELSE \E o \in {"ok", "OSError"} :
              /\ attempted' = attempted \cup {op_index}
              /\ applied' = IF o = "ok" THEN Append(applied, op_index)
                            ELSE applied
              /\ failed_op' = IF o = "OSError" THEN op_index ELSE failed_op
              /\ IF FileOpOutcome(o) = "failure"
                 THEN /\ exit' = [exit EXCEPT ![t] = "failure"]
                      /\ pc' = [pc EXCEPT ![t] = "settle"]
                 ELSE /\ pc' = [pc EXCEPT ![t] = "fo_report"]
                      /\ UNCHANGED exit
    /\ UNCHANGED <<bodyRest, progress, file_operations, op_index, fo_polls,
                   foOthers>>

\* report_progress(i / len(self.file_operations)), i counted from 0
FileOps_report(t) ==
    /\ pc[t] = "fo_report"
    /\ progress' = Fraction(op_index - 1, Len(file_operations))
    /\ op_index' = op_index + 1
    /\ pc' = [pc EXCEPT ![t] = "fo_poll"]
    /\ UNCHANGED <<bodyRest, exit, file_operations, applied, attempted,
                   fo_polls, failed_op, foOthers>>

\* the worker thread has entered the body of the file-operation task of a
\* dependency, after its archive was extracted
FileOpsInit ==
    /\ WorkerEnters(FileOpsTask, "fo_poll")
    /\ progress = NoProgress
    /\ DownloadIdle
    /\ ExtractionIdle
    /\ MarkerIdle
    /\ RepoIdle
    /\ ActionIdle
    /\ WizardIdle
    /\ HelperIdle
    /\ CleanupIdle
    /\ file_operations \in UNION {[1..n -> Commands] : n \in 0..MaxOps}
    /\ op_index = 1
    /\ applied = <<>>
    /\ attempted = {}
    /\ fo_polls = 0
    /\ failed_op = 0

FileOpsNext ==
    \/ FileOps_poll(FileOpsTask)
    \/ FileOps_check(FileOpsTask)
    \/ FileOps_apply(FileOpsTask)
    \/ FileOps_report(FileOpsTask)
    \/ settle(FileOpsTask)
    \/ abort(FileOpsTask)
    \/ cancel_button

FileOpsSpec == FileOpsInit /\ [][FileOpsNext]_vars

\* ------------------------------------------ mark_project_dependency_done
\* largest number of calls made on one environment
MaxMarks == 3

\* the leaf-body variables of the task kinds
mkOthers ==
    <<dlVars, exVars, foVars, rpVars, acVars, wzVars, hpVars, clVars>>

\* text is a sequence of characters: letters, the space and the line feed
Whitespace == {"sp", "nl"}

\* the identifiers a project configuration can give its dependencies: any
\* string, among them one that ends with a space, one that holds a line
\* feed, and the empty one
DepNames ==
    {<<"a">>, <<"b">>, <<"a", "b">>, <<"a", "sp">>, <<"a", "nl", "b">>, <<>>}

\* str.splitlines: the lines of the text without their line feeds; a line
\* feed at the end of the text does not start another line
RECURSIVE SplitFrom(_, _, _)
SplitFrom(text, i, line) ==
    IF i > Len(text) THEN (IF line = <<>> THEN <<>> ELSE <<line>>)
    ELSE IF text[i] = "nl" THEN <<line>> \o SplitFrom(text, i + 1, <<>>)
    ELSE SplitFrom(text, i + 1, Append(line, text[i]))

SplitLines(text) == SplitFrom(text, 1, <<>>)

\* str.strip: the text without the whitespace at its two ends
RECURSIVE LStrip(_)
LStrip(text) ==
    IF text # <<>> /\ Head(text) \in Whitespace THEN LStrip(Tail(text))
    ELSE text

RECURSIVE RStrip(_)
RStrip(text) ==
    IF text # <<>> /\ text[Len(text)] \in Whitespace
    THEN RStrip(SubSeq(text, 1, Len(text) - 1))
    ELSE text

Strip(text) == LStrip(RStrip(text))

\* "\n".join(lines)
RECURSIVE Join(_)
Join(lines) ==
    IF lines = <<>> THEN <<>>
    ELSE IF Len(lines) = 1 THEN lines[1]
    ELSE lines[1] \o <<"nl">> \o Join(Tail(lines))

\* [line.strip() for line in file_text.splitlines() if line]
RECURSIVE StrippedLines(_)
StrippedLines(lines) ==
    IF lines = <<>> THEN <<>>
    ELSE IF Head(lines) = <<>> THEN StrippedLines(Tail(lines))
    ELSE <<Strip(Head(lines))>> \o StrippedLines(Tail(lines))

\* get_project_dependencies_done: the persisted done list as it is read
get_project_dependencies_done ==
    IF ~done_exists THEN <<>> ELSE StrippedLines(SplitLines(done_text))

Elements(seq) == {seq[i] : i \in 1..Len(seq)}

\* mark_project_dependency_done(env_path, dep_name): the list is read, and
\* written again with dep_name at its end when it does not hold dep_name
mark_project_dependency_done(dep_name) ==
    /\ Len(marked) < MaxMarks
    /\ marked' = Append(marked, dep_name)
    /\ IF dep_name \notin Elements(get_project_dependencies_done)
       THEN /\ done_text' =
                   Join(Append(get_project_dependencies_done, dep_name))
            /\ done_exists' = TRUE
       ELSE UNCHANGED <<done_exists, done_text>>
    /\ UNCHANGED <<engineVars, progress, mkOthers>>

\* a project is open and none of its dependencies has been marked
MarkerInit ==
    /\ Init
    /\ tree = DepTree

MarkerNext == \E dep_name \in DepNames : mark_project_dependency_done(dep_name)

MarkerSpec == MarkerInit /\ [][MarkerNext]_vars

\* --------------------------------------------------------- SetupGitRepoTask
\* the leaf-body variables of the other task kinds
rpOthers ==
    <<dlVars, exVars, foVars, mkVars, acVars, wzVars, hpVars, clVars>>

\* the new-project setup trees of a project without dependencies, with or
\* without the base ROM in place
RepoTrees ==
    {[shape |-> "setup", n |-> 0, missing |-> {}, from_repo |-> FALSE,
      rom |-> r] : r \in BOOLEAN}

\* the engine variables that a step of the body leaves alone, the child
\* process apart
repoRest ==
    <<tree, status, cancel_requested, idx, notified, lastNote, runs,
      preFailed, cancelSets, envDir, uiVars, startVars, earlyCancel>>

\* the checks after p.wait(): the flag is looked at before the exit status
\* (variant: the exit status is looked at first)
ExitCheck_statusFirst(cancelled, exit_status) ==
    IF exit_status # 0 THEN "failure"
    ELSE IF cancelled THEN "cancel"
    ELSE "proceed"

ExitCheck(cancelled, exit_status) ==
    IF cancelled THEN "cancel"
    ELSE IF exit_status # 0 THEN "failure"
    ELSE "proceed"

\* run_impl: the temporary directory is created and git clone is spawned
\* with its stderr piped, both outside any try block
Repo_clone(t) ==
    /\ pc[t] = "rp_clone"
    /\ \E o \in {"ok", "OSError"} :
         IF o = "OSError"
         THEN /\ exit' = [exit EXCEPT ![t] = "raise"]
              /\ pc' = [pc EXCEPT ![t] = "raise"]
              /\ UNCHANGED <<phases, proc>>
         ELSE /\ phases' = Append(phases, "clone")
              /\ proc' = [proc EXCEPT ![t] = "running"]
              /\ pc' = [pc EXCEPT ![t] = "rp_readline"]
              /\ UNCHANGED exit
    /\ UNCHANGED <<repoRest, observed, exitStatus, pipeOut, pipeErr,
                   stderrConnected, interrupted, progress, clone_exit,
                   copy_result, checkout_exit, rpOthers>>

\* the loop `while line := buf.readline()`: readline returns when the pipe
\* holds a line, or at end of file once the child has exited; only after a
\* line was read is the flag looked at, and the interrupt sent if it is set
Repo_readline(t) ==
    /\ pc[t] = "rp_readline"
    /\ \/ /\ pipeErr[t]
          /\ pipeErr' = [pipeErr EXCEPT ![t] = FALSE]
          /\ IF is_cancelled(t)
             THEN /\ interrupted' = [interrupted EXCEPT ![t] = TRUE]
                  /\ observed' = [observed EXCEPT ![t] = TRUE]
                  /\ pc' = [pc EXCEPT ![t] = "rp_wait"]
                  /\ UNCHANGED progress
             ELSE /\ \E parsed \in BOOLEAN :
                       progress' = IF parsed THEN Fraction(1, 4) ELSE progress
                  /\ UNCHANGED <<interrupted, observed, pc>>
       \/ /\ ~pipeErr[t]
          /\ proc[t] = "exited"
          /\ pc' = [pc EXCEPT ![t] = "rp_wait"]
          /\ UNCHANGED <<pipeErr, interrupted, observed, progress>>
    /\ UNCHANGED <<repoRest, exit, proc, exitStatus, pipeOut, stderrConnected,
                   rpVars, rpOthers>>

\* exit_status = p.wait(), then the flag and the exit status are checked
Repo_wait(t) ==
    /\ pc[t] = "rp_wait"
    /\ proc[t] = "exited"
    /\ clone_exit' = exitStatus[t]
    /\ observed' = [observed EXCEPT ![t] = observed[t] \/ is_cancelled(t)]
    /\ LET o == ExitCheck(is_cancelled(t), exitStatus[t]) IN
       IF o = "proceed"
       THEN /\ progress' = Indeterminate
            /\ pc' = [pc EXCEPT ![t] = "rp_copy"]
            /\ UNCHANGED exit
       ELSE /\ exit' = [exit EXCEPT ![t] = o]
            /\ pc' = [pc EXCEPT ![t] = "settle"]
            /\ UNCHANGED progress
    /\ UNCHANGED <<repoRest, procVars, phases, copy_result, checkout_exit,
                   rpOthers>>

\* copytree of the clone into the destination: shutil.Error becomes the
\* failure signal, any other OSError is not caught; then the temporary
\* directory is removed and the flag is checked
Repo_copy(t) ==
    /\ pc[t] = "rp_copy"
    /\ phases' = Append(phases, "copy")
    /\ \E o \in {"ok", "Error", "OSError"} :
         /\ copy_result' = o
         /\ observed' = [observed EXCEPT ![t] =
                            observed[t] \/ (o = "ok" /\ is_cancelled(t))]
         /\ exit' = [exit EXCEPT ![t] =
                        IF o = "Error" THEN "failure"
                        ELSE IF o = "OSError" THEN "raise"
                        ELSE IF is_cancelled(t) THEN "cancel"
                        ELSE exit[t]]
         /\ pc' = [pc EXCEPT ![t] =
                      IF o = "OSError" THEN "raise"
                      ELSE IF o = "Error" \/ is_cancelled(t) THEN "settle"
                      ELSE "rp_checkout"]
    /\ UNCHANGED <<repoRest, procVars, progress, clone_exit, checkout_exit,
                   rpOthers>>

\* task_run_command: git checkout -b is spawned, outside any try block
Repo_checkout(t) ==
    /\ pc[t] = "rp_checkout"
    /\ \E o \in {"ok", "OSError"} :
         IF o = "OSError"
         THEN /\ exit' = [exit EXCEPT ![t] = "raise"]
              /\ pc' = [pc EXCEPT ![t] = "raise"]
              /\ UNCHANGED <<phases, proc>>
         ELSE /\ phases' = Append(phases, "checkout")
              /\ proc' = [proc EXCEPT ![t] = "running"]
              /\ pc' = [pc EXCEPT ![t] = "rp_poll"]
              /\ UNCHANGED exit
    /\ UNCHANGED <<repoRest, observed, exitStatus, pipeOut, pipeErr,
                   stderrConnected, interrupted, progress, clone_exit,
                   copy_result, checkout_exit, rpOthers>>

\* task_run_command: the loop `while p.poll() is None` ends when the child
\* has exited, or with the interrupt when the flag is set
Repo_poll(t) ==
    /\ pc[t] = "rp_poll"
    /\ \/ /\ proc[t] = "running"
          /\ is_cancelled(t)
          /\ interrupted' = [interrupted EXCEPT ![t] = TRUE]
          /\ observed' = [observed EXCEPT ![t] = TRUE]
       \/ /\ proc[t] = "exited"
          /\ UNCHANGED <<interrupted, observed>>
    /\ pc' = [pc EXCEPT ![t] = "rp_cwait"]
    /\ UNCHANGED <<repoRest, exit, proc, exitStatus, pipeOut, pipeErr,
                   stderrConnected, progress, rpVars, rpOthers>>

\* task_run_command returns p.wait(); the flag and the exit status are
\* checked
Repo_checked_out(t) ==
    /\ pc[t] = "rp_cwait"
    /\ proc[t] = "exited"
    /\ checkout_exit' = exitStatus[t]
    /\ observed' = [observed EXCEPT ![t] = observed[t] \/ is_cancelled(t)]
    /\ LET o == ExitCheck(is_cancelled(t), exitStatus[t]) IN
       exit' = [exit EXCEPT ![t] = IF o = "proceed" THEN "return" ELSE o]
    /\ pc' = [pc EXCEPT ![t] = "settle"]
    /\ UNCHANGED <<repoRest, procVars, progress, phases, clone_exit,
                   copy_result, rpOthers>>

\* the worker thread has entered the body of the repository setup task,
\* after the dependency sequence succeeded
RepoInit ==
    /\ \E tr \in RepoTrees : WorkerEntersIn(tr, RepoTask, "rp_clone")
    /\ progress = NoProgress
    /\ DownloadIdle
    /\ ExtractionIdle
    /\ FileOpsIdle
    /\ MarkerIdle
    /\ RepoIdle
    /\ ActionIdle
    /\ WizardIdle
    /\ HelperIdle
    /\ CleanupIdle

RepoNext ==
    \/ Repo_clone(RepoTask)
    \/ Repo_readline(RepoTask)
    \/ Repo_wait(RepoTask)
    \/ Repo_copy(RepoTask)
    \/ Repo_checkout(RepoTask)
    \/ Repo_poll(RepoTask)
    \/ Repo_checked_out(RepoTask)
    \/ Process_stderr(RepoTask)
    \/ Process_exit(RepoTask)
    \/ settle(RepoTask)
    \/ abort(RepoTask)
    \/ cancel_button

RepoSpec == RepoInit /\ [][RepoNext]_vars

\* the worker thread is scheduled, and a child process that was sent the
\* interrupt exits; a child left alone may run, and stay silent, for ever
RepoFairness ==
    /\ WF_vars(Repo_clone(RepoTask))
    /\ WF_vars(Repo_readline(RepoTask))
    /\ WF_vars(Repo_wait(RepoTask))
    /\ WF_vars(Repo_copy(RepoTask))
    /\ WF_vars(Repo_checkout(RepoTask))
    /\ WF_vars(Repo_poll(RepoTask))
    /\ WF_vars(Repo_checked_out(RepoTask))
    /\ WF_vars(settle(RepoTask))
    /\ WF_vars(abort(RepoTask))
    /\ WF_vars(interrupted[RepoTask] /\ Process_exit(RepoTask))

FairRepoSpec == RepoInit /\ [][RepoNext]_vars /\ RepoFairness

\* ------------------------------------- setup of three dependencies
\* the new-project setup tree of a project with three dependencies, none set
\* up yet, and no base ROM in the project
ThreeDepsTree ==
    [shape |-> "setup", n |-> 3, missing |-> {1, 2, 3}, from_repo |-> FALSE,
     rom |-> FALSE]

\* the download task whose body is followed statement by statement
SecondDownload == Download(2)

\* Task.run calls run_impl of the download task
Download_run_impl(t) ==
    /\ t = SecondDownload
    /\ pc[t] = "body"
    /\ pc' = [pc EXCEPT ![t] = "dl_begin"]
    /\ UNCHANGED <<bodyRest, exit, leafVars>>

\* the tree is built; the cache of the second dependency holds nothing, the
\* right archive or a wrong file
ThreeDepsInit ==
    /\ EngineInit(ThreeDepsTree)
    /\ progress = NoProgress
    /\ cached \in {"absent", "cached_good", "cached_bad"}
    /\ destination = cached
    /\ network_calls = 0
    /\ file_source = "none"
    /\ file_hash = "none"
    /\ file_size = 0
    /\ remaining = 0
    /\ read = 0
    /\ block_count = 0
    /\ raised = "none"
    /\ ExtractionIdle
    /\ FileOpsIdle
    /\ MarkerIdle
    /\ RepoIdle
    /\ ActionIdle
    /\ WizardIdle
    /\ HelperIdle
    /\ CleanupIdle

\* the bodies of the other leaves, followed only up to the way they exit
Leaf_finish_other(t) ==
    /\ t # SecondDownload
    /\ Leaf_finish(t)

ThreeDepsWorker ==
    \E t \in Tasks :
        \/ run(t)
        \/ settle(t)
        \/ abort(t)
        \/ TaskSequence_check(t)
        \/ TaskSequence_call(t)
        \/ TaskSequence_adopt(t)
        \/ SetupDependencies_pre(t)
        \/ Leaf_finish_other(t)

ThreeDepsNext ==
    \/ ThreeDepsWorker
    \/ Download_run_impl(SecondDownload)
    \/ Download_begin(SecondDownload)
    \/ Download_urlopen(SecondDownload)
    \/ Download_create(SecondDownload)
    \/ Download_hook(SecondDownload)
    \/ Download_read(SecondDownload)
    \/ Download_check(SecondDownload)
    \/ Download_compare(SecondDownload)
    \/ begin_setup
    \/ cancel_button

ThreeDepsSpec == ThreeDepsInit /\ [][ThreeDepsNext]_vars

\* --------------------------- ExecuteActionTask: notifications and disposal
\* the engine variables no step of a command body changes
acEngineRest ==
    <<tree, status, cancel_requested, idx, notified, lastNote, runs, observed,
      preFailed, cancelSets, pipeOut, pipeErr, envDir, startVars, earlyCancel>>

acOthers == <<progress, dlVars, exVars, foVars, mkVars, rpVars, wzVars, hpVars, clVars>>

\* the commands of an action of n commands, as shlex.join renders them: n
\* different command lines
CommandLines(n) == [i \in 1..n |-> "command " \o ToString(i)]

\* the action trees
ActionTrees == {tr \in Trees : tr.shape = "action"}

\* ExecuteActionTask.__init__ (variant: the subtasks are created for the
\* commands taken in reverse order)
ActionSubtasks_reversed(cmds) ==
    [i \in 1..Len(cmds) |->
        [task |-> Cmd(i), command |-> cmds[Len(cmds) + 1 - i],
         hidden |-> TRUE, connected |-> {"new_command", "stdout", "stderr"}]]

\* ExecuteActionTask.__init__: one ExecuteCommandTask per command, in the
\* order of the list, hidden, its three signals connected to the signals
\* of the action task
ActionSubtasks(cmds) ==
    [i \in 1..Len(cmds) |->
        [task |-> Cmd(i), command |-> cmds[i],
         hidden |-> TRUE, connected |-> {"new_command", "stdout", "stderr"}]]

\* a notification of the command task i; late: the line was written by the
\* child after the interrupt was sent to it
Notification(i, kind, payload, late) ==
    [task |-> i, kind |-> kind, payload |-> payload, late |-> late]

\* Signal.emit in a thread that is not the one of the receiver: with a
\* connection the call is queued for the thread of the action task, with
\* none it has no effect
Emit(e, connected) ==
    /\ emitted' = Append(emitted, [e |-> e, connected |-> connected])
    /\ posted' = IF connected THEN Append(posted, e) ELSE posted

\* run_impl: signal_new_command is emitted with the joined command, the
\* child is created and the two reader threads are started
Command_spawn(i) ==
    /\ i \in 1..tree.n
    /\ pc[Cmd(i)] = "spawn"
    /\ Emit(Notification(i, "new_command",
                         ActionSubtasks(commands)[i].command, FALSE),
            "new_command" \in ActionSubtasks(commands)[i].connected)
    /\ proc' = [proc EXCEPT ![Cmd(i)] = "running"]
    /\ pc' = [pc EXCEPT ![Cmd(i)] = "poll"]
    /\ UNCHANGED <<acEngineRest, exit, exitStatus, stderrConnected,
                   interrupted, ui, acOthers, commands, out_pipe, err_pipe,
                   written, relayed, disposed>>

\* run_impl: the two statements executed once the polling loop has seen the
\* flag (variant: the interrupt is sent before the signal is disconnected)
CancelSteps_interruptFirst == <<"send_signal", "disconnect">>

\* run_impl: the two statements executed once the polling loop has seen the
\* flag while the child is running
CancelSteps == <<"disconnect", "send_signal">>

\* run_impl: the polling loop sees the flag while poll() reports no exit,
\* and the first of the two statements is executed
Command_cancel_first(i) ==
    /\ i \in 1..tree.n
    /\ pc[Cmd(i)] = "poll"
    /\ proc[Cmd(i)] = "running"
    /\ is_cancelled(Cmd(i))
    /\ IF CancelSteps[1] = "disconnect"
       THEN /\ stderrConnected' = [stderrConnected EXCEPT ![Cmd(i)] = FALSE]
            /\ UNCHANGED interrupted
       ELSE /\ interrupted' = [interrupted EXCEPT ![Cmd(i)] = TRUE]
            /\ UNCHANGED stderrConnected
    /\ pc' = [pc EXCEPT ![Cmd(i)] = "cancelling"]
    /\ UNCHANGED <<acEngineRest, exit, proc, exitStatus, ui, acOthers, acVars>>

\* run_impl: the second of the two statements, then break
Command_cancel_second(i) ==
    /\ i \in 1..tree.n
    /\ pc[Cmd(i)] = "cancelling"
    /\ IF CancelSteps[2] = "disconnect"
       THEN /\ stderrConnected' = [stderrConnected EXCEPT ![Cmd(i)] = FALSE]
            /\ UNCHANGED interrupted
       ELSE /\ interrupted' = [interrupted EXCEPT ![Cmd(i)] = TRUE]
            /\ UNCHANGED stderrConnected
    /\ pc' = [pc EXCEPT ![Cmd(i)] = "pwait"]
    /\ UNCHANGED <<acEngineRest, exit, proc, exitStatus, ui, acOthers, acVars>>

\* run_impl: p.wait() returns (at once if poll() reported the exit), the
\* flag and the exit status are examined
Command_finish(i) ==
    /\ i \in 1..tree.n
    /\ pc[Cmd(i)] \in {"poll", "pwait"}
    /\ proc[Cmd(i)] = "exited"
    /\ exit' = [exit EXCEPT ![Cmd(i)] =
                   CommandOutcome(is_cancelled(Cmd(i)), exitStatus[Cmd(i)])]
    /\ pc' = [pc EXCEPT ![Cmd(i)] = "settle"]
    /\ UNCHANGED <<acEngineRest, procVars, ui, acOthers, acVars>>

\* the child process writes a line to its stdout
Child_stdout(i) ==
    /\ i \in 1..tree.n
    /\ proc[Cmd(i)] = "running"
    /\ written < MaxLines
    /\ written' = written + 1
    /\ out_pipe' = [out_pipe EXCEPT ![i] =
                       Append(@, [payload |-> ToString(written + 1),
                                  late |-> interrupted[Cmd(i)]])]
    /\ UNCHANGED <<engineVars, acOthers, commands, err_pipe, emitted, posted,
                   relayed, disposed>>

\* the child process writes a line to its stderr
Child_stderr(i) ==
    /\ i \in 1..tree.n
    /\ proc[Cmd(i)] = "running"
    /\ written < MaxLines
    /\ written' = written + 1
    /\ err_pipe' = [err_pipe EXCEPT ![i] =
                       Append(@, [payload |-> ToString(written + 1),
                                  late |-> interrupted[Cmd(i)]])]
    /\ UNCHANGED <<engineVars, acOthers, commands, out_pipe, emitted, posted,
                   relayed, disposed>>

\* pipe_to_signal on p.stdout: the reader thread reads a line and emits
\* signal_stdout with it
Reader_stdout(i) ==
    /\ i \in 1..tree.n
    /\ out_pipe[i] # <<>>
    /\ out_pipe' = [out_pipe EXCEPT ![i] = Tail(@)]
    /\ Emit(Notification(i, "stdout", Head(out_pipe[i]).payload,
                         Head(out_pipe[i]).late),
            "stdout" \in ActionSubtasks(commands)[i].connected)
    /\ UNCHANGED <<engineVars, acOthers, commands, err_pipe, written, relayed,
                   disposed>>

\* pipe_to_signal on p.stderr: the reader thread reads a line and emits
\* signal_stderr with it; after disconnect() the signal has no receiver
Reader_stderr(i) ==
    /\ i \in 1..tree.n
    /\ err_pipe[i] # <<>>
    /\ err_pipe' = [err_pipe EXCEPT ![i] = Tail(@)]
    /\ Emit(Notification(i, "stderr", Head(err_pipe[i]).payload,
                         Head(err_pipe[i]).late),
            /\ "stderr" \in ActionSubtasks(commands)[i].connected
            /\ stderrConnected[Cmd(i)])
    /\ UNCHANGED <<engineVars, acOthers, commands, out_pipe, written, relayed,
                   disposed>>

\* the event loop of the controlling thread handles a queued call: the
\* signal of the action task is emitted with the same argument
deliver ==
    /\ ui \in {"running", "hidden", "closed"}
    /\ ~disposed
    /\ posted # <<>>
    /\ relayed' = Append(relayed, Head(posted))
    /\ posted' = Tail(posted)
    /\ UNCHANGED <<engineVars, acOthers, commands, out_pipe, err_pipe,
                   written, emitted, disposed>>

\* QDialog.reject (the Escape key): the dialog is hidden, no close event
\* reaches closeEvent
reject ==
    /\ tree.shape = "action"
    /\ ui = "running"
    /\ ui' = "hidden"
    /\ UNCHANGED <<tree, taskVars, procVars, envDir, startVars, earlyCancel,
                   leafVars>>

\* ProjectActionRow.exec_action: the button of the action is clicked again
\* once the modal dialog is no longer shown; deleteLater() is called on the
\* dialog, the parent of the action task
exec_action ==
    /\ tree.shape = "action"
    /\ ui \in {"hidden", "closed"}
    /\ disposed' = TRUE
    /\ ui' = "replaced"
    /\ UNCHANGED <<tree, taskVars, procVars, envDir, startVars, earlyCancel,
                   acOthers, commands, out_pipe, err_pipe, written, emitted,
                   posted, relayed>>

ActionInit ==
    /\ \E tr \in ActionTrees : EngineInit(tr)
    /\ envDir = "ready"
    /\ commands = CommandLines(tree.n)
    /\ out_pipe = [i \in 1..MaxCmds |-> <<>>]
    /\ err_pipe = [i \in 1..MaxCmds |-> <<>>]
    /\ written = 0
    /\ emitted = <<>>
    /\ posted = <<>>
    /\ relayed = <<>>
    /\ disposed = FALSE
    /\ progress = NoProgress
    /\ DownloadIdle
    /\ ExtractionIdle
    /\ FileOpsIdle
    /\ MarkerIdle
    /\ RepoIdle
    /\ WizardIdle
    /\ HelperIdle
    /\ CleanupIdle

ActionWorker ==
    \E t \in Tasks :
        \/ run(t)
        \/ settle(t)
        \/ TaskSequence_check(t)
        \/ TaskSequence_call(t)
        \/ TaskSequence_adopt(t)

ActionCommands ==
    \E i \in 1..tree.n :
        \/ Command_spawn(i)
        \/ Command_cancel_first(i)
        \/ Command_cancel_second(i)
        \/ Command_finish(i)
        \/ Child_stdout(i)
        \/ Child_stderr(i)
        \/ Process_exit(Cmd(i))
        \/ Reader_stdout(i)
        \/ Reader_stderr(i)

ActionNext ==
    \/ ActionWorker
    \/ ActionCommands
    \/ show
    \/ closeEvent
    \/ wait
    \/ deliver

ActionSpec == ActionInit /\ [][ActionNext]_vars

\* the dialog of an action whose commands write nothing, with every way
\* the dialog can be dismissed and replaced
DialogCommands ==
    \E i \in 1..tree.n :
        \/ Command_spawn(i)
        \/ Command_cancel_first(i)
        \/ Command_cancel_second(i)
        \/ Command_finish(i)
        \/ Process_exit(Cmd(i))

DialogNext ==
    \/ ActionWorker
    \/ DialogCommands
    \/ show
    \/ closeEvent
    \/ wait
    \/ reject
    \/ exec_action
    \/ deliver

DialogSpec == ActionInit /\ [][DialogNext]_vars

\* ------------------------------------------------------------- the wizard
\* the engine variables: no task runs while the wizard is followed here
wzOthers ==
    <<progress, dlVars, exVars, foVars, mkVars, rpVars, acVars, hpVars,
      clVars>>

\* what can exist on disk: the environment directory of the project opened,
\* the directories of its dependencies inside it, its base ROM, and the
\* base ROM in the ROM cache
Disks ==
    {d \in [env : BOOLEAN, deps : SUBSET (1..MaxDeps), rom : BOOLEAN,
            cached : BOOLEAN, dependencies : 0..MaxDeps] :
        /\ d.deps \subseteq 1..d.dependencies
        /\ d.deps # {} => d.env}

\* the directory selected for a new project is empty
NewProjectDisk(d) == [d EXCEPT !.env = FALSE, !.deps = {}, !.rom = FALSE]

\* Project.existing_project_requires_setup (variant: the base ROM is not
\* looked at)
existing_project_requires_setup_noRom(d) ==
    IF ~d.env THEN TRUE
    ELSE IF \E i \in 1..d.dependencies : i \notin d.deps THEN TRUE
    ELSE FALSE

\* Project.existing_project_requires_setup
existing_project_requires_setup(d) ==
    IF ~d.env THEN TRUE
    ELSE IF \E i \in 1..d.dependencies : i \notin d.deps THEN TRUE
    ELSE IF ~d.rom THEN TRUE
    ELSE FALSE

\* Project.get_setup_task: the tree built on the filesystem d
get_setup_task(d, from_existing_repo) ==
    [shape |-> "setup", n |-> d.dependencies,
     missing |-> {i \in 1..d.dependencies : i \notin d.deps},
     from_repo |-> from_existing_repo, rom |-> d.rom]

\* the leaf tasks get_setup_task adds to the tree
SetupLeaves(tr) ==
    UNION {{Download(i), Extract(i), FileOps(i)} : i \in tr.missing}
        \cup (IF tr.from_repo THEN {} ELSE {RepoTask})
        \cup (IF tr.rom THEN {} ELSE {RomCopy})

\* SetupBaseromPage.initializePage: the title is made of project_path.name
\* when setting up from a repository; None has no attribute name
SetupBaseromPage_initializePage(ctx) ==
    IF ctx.setup_from_repo /\ ctx.project_path = "none"
    THEN "fatal"
    ELSE "SETUP_BASEROM"

\* StartPage.validatePage with "new project" checked, then
\* SetupTemplatePage.initializePage
StartPage_new ==
    /\ page = "START"
    /\ setup_context' = [setup_context EXCEPT !.setup_from_repo = FALSE,
                                              !.template_config = "none"]
    /\ project_context' = "none"
    /\ page' = "SETUP_TEMPLATE"
    /\ history' = Append(history, page)
    /\ UNCHANGED <<engineVars, wzOthers, baserom_exists, disk, setup_task,
                   requires_setup>>

\* StartPage.validatePage with an existing project chosen, then
\* initializePage of the page it routes to
StartPage_open ==
    /\ page = "START"
    /\ LET needed == existing_project_requires_setup(disk)
           ctx == IF needed
                  THEN IF disk.cached
                       THEN [setup_context EXCEPT !.setup_from_repo = TRUE]
                       ELSE [setup_context EXCEPT
                                !.setup_from_repo = TRUE,
                                !.template_config = "project"]
                  ELSE setup_context
       IN  /\ requires_setup' = IF needed THEN "yes" ELSE "no"
           /\ setup_context' = ctx
           /\ project_context' = "project_dir"
           /\ page' = IF ~needed THEN "PROJECT_ACTIONS"
                      ELSE IF disk.cached THEN "SETUP_PROGRESS_FROM_REPO"
                      ELSE SetupBaseromPage_initializePage(ctx)
           /\ setup_task' = IF needed /\ disk.cached
                            THEN get_setup_task(disk, TRUE)
                            ELSE setup_task
    /\ history' = Append(history, page)
    /\ UNCHANGED <<engineVars, wzOthers, baserom_exists, disk>>

\* SetupTemplatePage.validatePage, then SetupDirectoryPage.initializePage
SetupTemplatePage_next ==
    /\ page = "SETUP_TEMPLATE"
    /\ setup_context' = [setup_context EXCEPT !.template_config = "template",
                                              !.project_path = "none"]
    /\ baserom_exists' = disk.cached
    /\ page' = "SETUP_DIRECTORY"
    /\ history' = Append(history, page)
    /\ UNCHANGED <<engineVars, wzOthers, project_context, disk, setup_task,
                   requires_setup>>

\* SetupDirectoryPage.select_directory: an empty folder is selected
SetupDirectoryPage_select_directory ==
    /\ page = "SETUP_DIRECTORY"
    /\ setup_context' = [setup_context EXCEPT !.project_path = "new_dir"]
    /\ UNCHANGED <<engineVars, wzOthers, page, history, project_context,
                   baserom_exists, disk, setup_task, requires_setup>>

\* the project the progress page of the new-project flow creates
NewProject(ctx) == ctx.project_path

\* SetupDirectoryPage: isComplete, nextId, then initializePage of the next
\* page
SetupDirectoryPage_next ==
    /\ page = "SETUP_DIRECTORY"
    /\ setup_context.project_path # "none"
    /\ IF baserom_exists
       THEN /\ page' = IF setup_context.setup_from_repo
                       THEN "SETUP_PROGRESS_FROM_REPO"
                       ELSE "SETUP_PROGRESS_FROM_TEMPLATE"
            /\ project_context' = IF setup_context.setup_from_repo
                                  THEN project_context
                                  ELSE NewProject(setup_context)
            /\ setup_task' = get_setup_task(NewProjectDisk(disk),
                                            setup_context.setup_from_repo)
       ELSE /\ page' = SetupBaseromPage_initializePage(setup_context)
            /\ UNCHANGED <<project_context, setup_task>>
    /\ history' = Append(history, page)
    /\ UNCHANGED <<engineVars, wzOthers, setup_context, baserom_exists, disk,
                   requires_setup>>

\* SetupBaseromPage.select_file: the right ROM is selected and cached
SetupBaseromPage_select_file ==
    /\ page = "SETUP_BASEROM"
    /\ ~disk.cached
    /\ disk' = [disk EXCEPT !.cached = TRUE]
    /\ UNCHANGED <<engineVars, wzOthers, page, history, setup_context,
                   project_context, baserom_exists, setup_task,
                   requires_setup>>

\* SetupBaseromPage: isComplete, nextId, then initializePage of the
\* progress page
SetupBaseromPage_next ==
    /\ page = "SETUP_BASEROM"
    /\ disk.cached
    /\ IF setup_context.setup_from_repo
       THEN /\ page' = "SETUP_PROGRESS_FROM_REPO"
            /\ setup_task' = get_setup_task(disk, TRUE)
            /\ UNCHANGED project_context
       ELSE /\ page' = "SETUP_PROGRESS_FROM_TEMPLATE"
            /\ setup_task' = get_setup_task(NewProjectDisk(disk), FALSE)
            /\ project_context' = NewProject(setup_context)
    /\ history' = Append(history, page)
    /\ UNCHANGED <<engineVars, wzOthers, setup_context, baserom_exists, disk,
                   requires_setup>>

\* QWizard.back: the previous page is shown again as it was left
back ==
    /\ page \in {"SETUP_TEMPLATE", "SETUP_DIRECTORY", "SETUP_BASEROM"}
    /\ history # <<>>
    /\ page' = history[Len(history)]
    /\ history' = SubSeq(history, 1, Len(history) - 1)
    /\ UNCHANGED <<engineVars, wzOthers, setup_context, project_context,
                   baserom_exists, disk, setup_task, requires_setup>>

\* on_setup_success of a progress page: everything the tree was built for
\* is in place, the wizard goes to the page nextId names
on_setup_success ==
    /\ page \in {"SETUP_PROGRESS_FROM_REPO", "SETUP_PROGRESS_FROM_TEMPLATE"}
    /\ disk' = IF page = "SETUP_PROGRESS_FROM_REPO"
               THEN [disk EXCEPT !.env = TRUE, !.deps = 1..disk.dependencies,
                                 !.rom = TRUE]
               ELSE disk
    /\ page' = "SETUP_COMPLETE"
    /\ history' = Append(history, page)
    /\ UNCHANGED <<engineVars, wzOthers, setup_context, project_context,
                   baserom_exists, setup_task, requires_setup>>

\* the Finish button of SetupCompletePage, a commit page: QWizard.next to
\* the project actions page
SetupCompletePage_next ==
    /\ page = "SETUP_COMPLETE"
    /\ page' = "PROJECT_ACTIONS"
    /\ history' = Append(history, page)
    /\ UNCHANGED <<engineVars, wzOthers, setup_context, project_context,
                   baserom_exists, disk, setup_task, requires_setup>>

\* on_setup_cancelled of a progress page: the wizard is restarted, with
\* whatever the run had created left in the project
on_setup_cancelled ==
    /\ page \in {"SETUP_PROGRESS_FROM_REPO", "SETUP_PROGRESS_FROM_TEMPLATE"}
    /\ IF page = "SETUP_PROGRESS_FROM_REPO"
       THEN \E d \in Disks :
              /\ d.dependencies = disk.dependencies
              /\ d.cached = disk.cached
              /\ disk.env => d.env
              /\ disk.deps \subseteq d.deps
              /\ d.rom = disk.rom
              /\ disk' = d
       ELSE UNCHANGED disk
    /\ page' = "START"
    /\ history' = <<>>
    /\ UNCHANGED <<engineVars, wzOthers, setup_context, project_context,
                   baserom_exists, setup_task, requires_setup>>

\* MainWindow.restart, the Finish button of the project actions page
restart ==
    /\ page = "PROJECT_ACTIONS"
    /\ page' = "START"
    /\ history' = <<>>
    /\ UNCHANGED <<engineVars, wzOthers, setup_context, project_context,
                   baserom_exists, disk, setup_task, requires_setup>>

WizardInit ==
    /\ EngineInit([shape |-> "action", n |-> 0, missing |-> {},
                   from_repo |-> FALSE, rom |-> FALSE])
    /\ envDir = "ready"
    /\ page = "START"
    /\ history = <<>>
    /\ setup_context = NewSetupContext
    /\ project_context = "none"
    /\ baserom_exists = FALSE
    /\ disk \in Disks
    /\ setup_task = NoSetupTask
    /\ requires_setup = "none"
    /\ progress = NoProgress
    /\ DownloadIdle
    /\ ExtractionIdle
    /\ FileOpsIdle
    /\ MarkerIdle
    /\ RepoIdle
    /\ ActionIdle
    /\ HelperIdle
    /\ CleanupIdle

WizardNext ==
    \/ StartPage_new
    \/ StartPage_open
    \/ SetupTemplatePage_next
    \/ SetupDirectoryPage_select_directory
    \/ SetupDirectoryPage_next
    \/ SetupBaseromPage_select_file
    \/ SetupBaseromPage_next
    \/ back
    \/ on_setup_success
    \/ SetupCompletePage_next
    \/ on_setup_cancelled
    \/ restart

WizardSpec == WizardInit /\ [][WizardNext]_vars

\* ------------------------------------------------------- task_run_command
\* largest output of the child process, and what the pipe can hold, in
\* blocks
MaxOutput == 3

PipeCapacity == 2

\* the leaf-body variables of the other task kinds
hpOthers ==
    <<dlVars, exVars, foVars, mkVars, rpVars, acVars, wzVars, clVars>>

\* the new-project setup tree of a project without dependencies with the
\* base ROM in place: the project file task follows the repository task
HelperTree ==
    [shape |-> "setup", n |-> 0, missing |-> {}, from_repo |-> FALSE,
     rom |-> TRUE]

\* CreateProjectFileTask.run_impl: the template is copied to the project
\* file, an OSError becomes the failure signal
CreateProjectFile_copy(t) ==
    /\ pc[t] = "pf_copy"
    /\ \E o \in {"ok", "OSError"} :
         IF o = "OSError"
         THEN /\ exit' = [exit EXCEPT ![t] = "failure"]
              /\ pc' = [pc EXCEPT ![t] = "settle"]
         ELSE /\ pc' = [pc EXCEPT ![t] = "cmd_popen"]
              /\ UNCHANGED exit
    /\ UNCHANGED <<repoRest, observed, procVars, progress, hpVars, hpOthers>>

\* task_run_command: Popen with stdout piped and stderr sent to stdout,
\* outside any try block
task_run_command_Popen(t) ==
    /\ pc[t] = "cmd_popen"
    /\ \E o \in {"ok", "OSError"} :
         IF o = "OSError"
         THEN /\ exit' = [exit EXCEPT ![t] = "raise"]
              /\ pc' = [pc EXCEPT ![t] = "raise"]
              /\ UNCHANGED proc
         ELSE /\ proc' = [proc EXCEPT ![t] = "running"]
              /\ pc' = [pc EXCEPT ![t] = "cmd_poll"]
              /\ UNCHANGED exit
    /\ UNCHANGED <<repoRest, observed, exitStatus, pipeOut, pipeErr,
                   stderrConnected, interrupted, progress, hpVars, hpOthers>>

\* task_run_command: the loop `while p.poll() is None` ends when the child
\* has exited, or with the interrupt when the flag is set; it reads
\* nothing from the pipe
task_run_command_poll(t) ==
    /\ pc[t] = "cmd_poll"
    /\ \/ /\ proc[t] = "running"
          /\ is_cancelled(t)
          /\ interrupted' = [interrupted EXCEPT ![t] = TRUE]
          /\ observed' = [observed EXCEPT ![t] = TRUE]
       \/ /\ proc[t] = "exited"
          /\ UNCHANGED <<interrupted, observed>>
    /\ pc' = [pc EXCEPT ![t] = "cmd_wait"]
    /\ UNCHANGED <<repoRest, exit, proc, exitStatus, pipeOut, pipeErr,
                   stderrConnected, progress, hpVars, hpOthers>>

\* task_run_command: p.wait() returns once the child has exited, then
\* p.stdout.read() takes what the pipe holds and the status is returned
task_run_command_return(t) ==
    /\ pc[t] = "cmd_wait"
    /\ proc[t] = "exited"
    /\ logged' = logged + pipe_fill
    /\ pipe_fill' = 0
    /\ returned' = exitStatus[t]
    /\ pc' = [pc EXCEPT ![t] = "pf_check"]
    /\ UNCHANGED <<repoRest, exit, observed, procVars, progress,
                   child_remaining, hpOthers>>

\* CreateProjectFileTask.run_impl: the flag and the exit status are checked
CreateProjectFile_check(t) ==
    /\ pc[t] = "pf_check"
    /\ observed' = [observed EXCEPT ![t] = observed[t] \/ is_cancelled(t)]
    /\ LET o == ExitCheck(is_cancelled(t), returned) IN
       exit' = [exit EXCEPT ![t] = IF o = "proceed" THEN "return" ELSE o]
    /\ pc' = [pc EXCEPT ![t] = "settle"]
    /\ UNCHANGED <<repoRest, procVars, progress, hpVars, hpOthers>>

\* the child writes a block of its output: the write completes only while
\* the pipe has room, otherwise the child is blocked in it
Child_write(t) ==
    /\ proc[t] = "running"
    /\ child_remaining > 0
    /\ pipe_fill < PipeCapacity
    /\ child_remaining' = child_remaining - 1
    /\ pipe_fill' = pipe_fill + 1
    /\ UNCHANGED <<repoRest, pc, exit, observed, procVars, progress, logged,
                   returned, hpOthers>>

\* the child exits once it has written all of its output, or on the
\* interrupt
Child_exit(t) ==
    /\ proc[t] = "running"
    /\ child_remaining = 0 \/ interrupted[t]
    /\ \E s \in {0, 1} : exitStatus' = [exitStatus EXCEPT ![t] = s]
    /\ proc' = [proc EXCEPT ![t] = "exited"]
    /\ UNCHANGED <<repoRest, pc, exit, observed, pipeOut, pipeErr,
                   stderrConnected, interrupted, progress, hpVars, hpOthers>>

\* the worker thread has entered the body of the project file task, after
\* the repository was set up
HelperInit ==
    /\ WorkerEntersIn(HelperTree, ProjectFile, "pf_copy")
    /\ progress = NoProgress
    /\ DownloadIdle
    /\ ExtractionIdle
    /\ FileOpsIdle
    /\ MarkerIdle
    /\ RepoIdle
    /\ ActionIdle
    /\ WizardIdle
    /\ CleanupIdle
    /\ child_remaining \in 0..MaxOutput
    /\ pipe_fill = 0
    /\ logged = 0
    /\ returned = NoExit

HelperNext ==
    \/ CreateProjectFile_copy(ProjectFile)
    \/ task_run_command_Popen(ProjectFile)
    \/ task_run_command_poll(ProjectFile)
    \/ task_run_command_return(ProjectFile)
    \/ CreateProjectFile_check(ProjectFile)
    \/ Child_write(ProjectFile)
    \/ Child_exit(ProjectFile)
    \/ settle(ProjectFile)
    \/ abort(ProjectFile)
    \/ cancel_button

\* the worker thread is scheduled, and the child writes while the pipe has
\* room and exits when it is through or interrupted
HelperFairness ==
    /\ WF_vars(CreateProjectFile_copy(ProjectFile))
    /\ WF_vars(task_run_command_Popen(ProjectFile))
    /\ WF_vars(task_run_command_poll(ProjectFile))
    /\ WF_vars(task_run_command_return(ProjectFile))
    /\ WF_vars(CreateProjectFile_check(ProjectFile))
    /\ WF_vars(Child_write(ProjectFile))
    /\ WF_vars(Child_exit(ProjectFile))
    /\ WF_vars(settle(ProjectFile))
    /\ WF_vars(abort(ProjectFile))

HelperSpec == HelperInit /\ [][HelperNext]_vars /\ HelperFairness

\* ------------------------------------------- SetupFromTemplateProgressPage
\* the leaf-body variables of the other families
clOthers ==
    <<progress, dlVars, exVars, foVars, mkVars, rpVars, acVars, wzVars,
      hpVars>>

\* the engine variables a handler of the page leaves alone
clEngineRest ==
    <<tree, status, pc, idx, exit, notified, lastNote, runs, observed,
      preFailed, procVars, envDir, startVars>>

\* the trees initializePage builds for a new project: its directory is
\* empty, so every dependency is to set up, the repository and the ROM
\* are missing, and the project file task is appended
TemplateTrees ==
    {tr \in Trees : /\ tr.shape = "setup"
                    /\ tr.n <= 1
                    /\ tr.missing = 1..tr.n
                    /\ ~tr.from_repo
                    /\ ~tr.rom}

Settled(st) == st \in {"SUCCESS", "FAILURE"}

\* cancel_button: the branch of the handler taken for a status of the root
\* (variant: the cancelled path is taken at once while the root is WORKING)
CancelBranch_cleanupAtOnce(st) ==
    IF st \in {"WORKING", "FAILURE"} THEN "on_setup_cancelled" ELSE "none"

CancelBranch(st) ==
    IF st = "WORKING" THEN "cancel"
    ELSE IF st = "FAILURE" THEN "on_setup_cancelled"
    ELSE "none"

\* SetupFromTemplateProgressPage.on_setup_cancelled: the Cancel button is
\* disabled and set_cleanup_task is called; it waits for a cleanup task
\* made before, then makes a new one, which is connected and started
Template_on_setup_cancelled ==
    /\ cancel_enabled' = FALSE
    /\ IF cleanup_task = <<>> \/ Settled(cleanup_task[Len(cleanup_task)])
       THEN /\ cleanup_task' = Append(cleanup_task, "NOT_STARTED")
            /\ UNCHANGED gui
       ELSE /\ gui' = "waiting"
            /\ UNCHANGED cleanup_task

\* set_cleanup_task: wait() returns, the old task is left to deleteLater,
\* the new cleanup task is made, connected and started
set_cleanup_task ==
    /\ gui = "waiting"
    /\ Settled(cleanup_task[Len(cleanup_task)])
    /\ cleanup_task' = Append(cleanup_task, "NOT_STARTED")
    /\ gui' = "idle"
    /\ UNCHANGED <<engineVars, clOthers, page_queue, cancel_enabled,
                   root_handled>>

\* SetupBaseProgressPage.cancel_button on the new-project page: a click on
\* the enabled Cancel button is handled by the thread of the page
Template_cancel_button ==
    /\ ui = "running"
    /\ gui = "idle"
    /\ cancel_enabled
    /\ LET branch == IF CancelButtonGuard THEN CancelBranch(status[Root])
                     ELSE "none"
       IN  CASE branch = "cancel" ->
                   /\ cancel(Root)
                   /\ cancel_enabled' = FALSE
                   /\ UNCHANGED <<cleanup_task, gui>>
             [] branch = "on_setup_cancelled" ->
                   /\ Template_on_setup_cancelled
                   /\ UNCHANGED <<cancel_requested, cancelSets, earlyCancel>>
             [] OTHER ->
                   UNCHANGED <<cancel_requested, cancelSets, earlyCancel,
                               cancel_enabled, cleanup_task, gui>>
    /\ UNCHANGED <<clEngineRest, ui, clOthers, page_queue, root_handled>>

\* the signal the root emitted when it settled reaches the thread of the
\* page: on_setup_success, on_setup_failure or on_setup_cancelled
Template_root_signal ==
    /\ ui = "running"
    /\ gui = "idle"
    /\ ~root_handled
    /\ pc[Root] = "done"
    /\ root_handled' = TRUE
    /\ CASE notified[Root] = "SUCCESS" ->
               /\ ui' = "complete"
               /\ UNCHANGED <<cancel_enabled, cleanup_task, gui>>
         [] notified[Root] = "FAILURE" ->
               /\ cancel_enabled' = TRUE
               /\ UNCHANGED <<ui, cleanup_task, gui>>
         [] OTHER ->
               /\ Template_on_setup_cancelled
               /\ UNCHANGED ui
    /\ UNCHANGED <<clEngineRest, cancel_requested, cancelSets, earlyCancel,
                   clOthers, page_queue>>

\* the worker thread of cleanup task k begins its body
Cleanup_run(k) ==
    /\ k \in 1..Len(cleanup_task)
    /\ cleanup_task[k] = "NOT_STARTED"
    /\ cleanup_task' = [cleanup_task EXCEPT ![k] = "WORKING"]
    /\ UNCHANGED <<engineVars, clOthers, page_queue, cancel_enabled,
                   root_handled, gui>>

\* cleanup task k, the file-operation sequence [["delete", ""]] on the
\* project directory, settles and emits its signal
Cleanup_settle(k) ==
    /\ k \in 1..Len(cleanup_task)
    /\ cleanup_task[k] = "WORKING"
    /\ \E o \in {"ok", "OSError"} :
         cleanup_task' =
            [cleanup_task EXCEPT ![k] = IF FileOpOutcome(o) = "failure"
                                        THEN "FAILURE" ELSE "SUCCESS"]
    /\ page_queue' = Append(page_queue, k)
    /\ UNCHANGED <<engineVars, clOthers, cancel_enabled, root_handled, gui>>

\* signal_success or signal_failure of a cleanup task reaches the thread
\* of the page: SetupBaseProgressPage.on_setup_cancelled restarts the
\* wizard.  The signal of a task that was handed to deleteLater in the
\* meantime may be delivered or not
Template_cleanup_signal ==
    /\ gui = "idle"
    /\ root_handled \/ pc[Root] # "done"
    /\ page_queue # <<>>
    /\ page_queue' = Tail(page_queue)
    /\ \E delivered \in BOOLEAN :
         /\ ~delivered => Head(page_queue) < Len(cleanup_task)
         /\ IF delivered /\ ui = "running"
            THEN /\ ui' = "restarted"
                 /\ cancel_enabled' = TRUE
            ELSE UNCHANGED <<ui, cancel_enabled>>
    /\ UNCHANGED <<clEngineRest, cancel_requested, cancelSets, earlyCancel,
                   clOthers, cleanup_task, root_handled, gui>>

CleanupInit ==
    /\ \E tr \in TemplateTrees : EngineInit(tr)
    /\ LeafIdle

CleanupWorker ==
    \E t \in Tasks :
        \/ run(t)
        \/ settle(t)
        \/ abort(t)
        \/ TaskSequence_check(t)
        \/ TaskSequence_call(t)
        \/ TaskSequence_adopt(t)
        \/ SetupDependencies_pre(t)
        \/ Leaf_finish(t)

CleanupNext ==
    \/ begin_setup
    \/ CleanupWorker
    \/ Template_cancel_button
    \/ Template_root_signal
    \/ set_cleanup_task
    \/ \E k \in 1..2 : Cleanup_run(k)
    \/ \E k \in 1..2 : Cleanup_settle(k)
    \/ Template_cleanup_signal

CleanupSpec == CleanupInit /\ [][CleanupNext]_vars

\* ------------------------------------------------------------ properties
SubtaskSet(t) == {Subtasks(t)[i] : i \in 1..Len(Subtasks(t))}

LegalTransition(a, b) ==
    \/ a = b
    \/ a = "NOT_STARTED" /\ b = "WORKING"
    \/ a = "WORKING" /\ b \in Terminal

\* C1: in every step the status of every task either stays, or moves from
\* NOT_STARTED to WORKING, or from WORKING to SUCCESS, FAILURE or CANCELLED;
\* so it never returns to NOT_STARTED and never leaves a terminal status,
\* whatever start and cancel calls are made.
C1_StatusStateMachine ==
    [][\A t \in Tasks : LegalTransition(status[t], status'[t])]_vars

\* the root has settled after cancellation was requested, and start() has
\* been called on it a second time
C1_Witness ==
    /\ status[Root] \in Terminal
    /\ cancel_requested[Root]
    /\ startedAgain

\* C2: a start() call on a root that was already started ends in a
\* contract violation (it neither launches the task again nor is silently
\* ignored), and the body of no task is entered more than once.
C2_StartTwiceFails ==
    /\ \A t \in Tasks : runs[t] <= 1
    /\ startedAgain => startResult = "contract_violation"

\* start() has been called a second time and was rejected; the root is
\* still WORKING in its only run
C2_Witness ==
    /\ startedAgain
    /\ startResult = "contract_violation"
    /\ status[Root] = "WORKING"
    /\ runs[Root] = 1

\* C3: if subtask k of a sequence is FAILURE or CANCELLED, every later
\* subtask of that sequence is NOT_STARTED and its body was never entered.
C3_FailFast ==
    \A t \in Tasks :
        IsSequence(t) =>
            \A k \in 1..Len(Subtasks(t)) :
                status[Subtasks(t)[k]] \in {"FAILURE", "CANCELLED"} =>
                    \A j \in (k + 1)..Len(Subtasks(t)) :
                        /\ status[Subtasks(t)[j]] = "NOT_STARTED"
                        /\ runs[Subtasks(t)[j]] = 0

\* an action of two commands has settled after its first command failed
C3_Witness ==
    /\ tree.shape = "action"
    /\ tree.n >= 2
    /\ status[Cmd(1)] = "FAILURE"
    /\ pc[ActionSeq] = "done"

AllSubtasksSuccess(t) == \A c \in SubtaskSet(t) : status[c] = "SUCCESS"

\* C4 as stated: a settled sequence is SUCCESS iff every subtask is SUCCESS;
\* if it is not SUCCESS it is CANCELLED exactly when cancellation was
\* observed, and FAILURE otherwise.
C4_Original ==
    \A t \in Tasks :
        (IsSequence(t) /\ status[t] \in Terminal) =>
            /\ status[t] = "SUCCESS" <=> AllSubtasksSuccess(t)
            /\ status[t] # "SUCCESS" => (status[t] = "CANCELLED" <=> observed[t])

\* C4 amended: a settled sequence whose own pre-subtask work failed (the
\* environment directory or its .gitignore could not be written) is FAILURE
\* with every subtask still NOT_STARTED; any other settled sequence is
\* SUCCESS iff every subtask is SUCCESS, and otherwise CANCELLED exactly
\* when cancellation was observed and FAILURE when it was not.
C4_SequenceStatus ==
    \A t \in Tasks :
        (IsSequence(t) /\ status[t] \in Terminal) =>
            IF preFailed[t]
            THEN /\ status[t] = "FAILURE"
                 /\ \A c \in SubtaskSet(t) : status[c] = "NOT_STARTED"
            ELSE /\ status[t] = "SUCCESS" <=> AllSubtasksSuccess(t)
                 /\ status[t] # "SUCCESS" =>
                        (status[t] = "CANCELLED" <=> observed[t])

\* the dependency sequence of a project without dependencies has settled
\* FAILURE because the environment directory could not be set up
C4_Witness ==
    /\ tree.shape = "setup"
    /\ tree.n = 0
    /\ preFailed[DepsSeq]
    /\ status[DepsSeq] = "FAILURE"

LeafTasks == {t \in Tasks : ~IsSequence(t)}

\* C5: in every sequence a subtask has left NOT_STARTED only if the subtask
\* before it is terminal, at most one subtask of the sequence is WORKING,
\* and at most one leaf task is WORKING at any moment.
C5_Serial ==
    /\ \A t \in Tasks :
          IsSequence(t) =>
              /\ \A j \in 2..Len(Subtasks(t)) :
                    status[Subtasks(t)[j]] # "NOT_STARTED" =>
                        status[Subtasks(t)[j - 1]] \in Terminal
              /\ Cardinality({c \in SubtaskSet(t) : status[c] = "WORKING"}) <= 1
    /\ Cardinality({t \in LeafTasks : status[t] = "WORKING"}) <= 1

\* the second command of an action is WORKING after the first has settled
C5_Witness ==
    /\ tree.shape = "action"
    /\ tree.n >= 2
    /\ status[Cmd(1)] = "SUCCESS"
    /\ status[Cmd(2)] = "WORKING"

\* C6: once a task has announced its terminal status, that status
\* notification is the last notification the task has emitted.
C6_SettledIsLast ==
    \A t \in Tasks : notified[t] \in Terminal => lastNote[t] = "status"

\* C7: if cancel is requested on a started, unsettled root that has
\* subtasks while none of them has left NOT_STARTED, no subtask ever leaves NOT_STARTED and the root
\* settles CANCELLED.
C7_CancelRace ==
    earlyCancel =>
        /\ \A c \in SubtaskSet(Root) : status[c] = "NOT_STARTED"
        /\ status[Root] \in Terminal => status[Root] = "CANCELLED"

\* C8: the flag of every task is initially false, no step clears it, no
\* task has its flag set more than once, and the Cancel handler of the
\* setup progress page sets it only when it was not set.
C8_CancelMonotonic ==
    /\ \A t \in Tasks : ~cancel_requested[t]
    /\ [][\A t \in Tasks :
            /\ cancel_requested[t] => cancel_requested'[t]
            /\ cancelSets'[t] <= 1
            /\ cancelSets'[t] = IF cancel_requested'[t] THEN 1 ELSE 0]_vars

\* cancellation was requested through the Cancel button and the root is
\* still WORKING, so the button can be pressed again
C8_Witness ==
    /\ tree.shape = "setup"
    /\ ui = "running"
    /\ status[Root] = "WORKING"
    /\ cancel_requested[Root]
    /\ cancelSets[Root] = 1

\* C9 as stated: in a sequence that settled CANCELLED every subtask that
\* had not completed is CANCELLED too.
C9_Original ==
    \A t \in Tasks :
        (IsSequence(t) /\ status[t] = "CANCELLED") =>
            \A c \in SubtaskSet(t) :
                status[c] \notin {"SUCCESS", "FAILURE"} => status[c] = "CANCELLED"

\* C9 amended: a sequence in which the cancellation signal was raised
\* settles CANCELLED; its subtasks are then SUCCESS up to some subtask k,
\* subtask k is CANCELLED (it was running) or NOT_STARTED, and every later
\* subtask is NOT_STARTED; no body of a NOT_STARTED subtask was entered.
C9_CancelledSequence ==
    \A t \in Tasks :
        IsSequence(t) =>
            /\ (pc[t] = "done" /\ exit[t] = "cancel") => status[t] = "CANCELLED"
            /\ status[t] = "CANCELLED" =>
                  \E k \in 1..Len(Subtasks(t)) :
                      /\ \A i \in 1..(k - 1) : status[Subtasks(t)[i]] = "SUCCESS"
                      /\ status[Subtasks(t)[k]] \in {"CANCELLED", "NOT_STARTED"}
                      /\ \A i \in (k + 1)..Len(Subtasks(t)) :
                            status[Subtasks(t)[i]] = "NOT_STARTED"
                      /\ \A i \in k..Len(Subtasks(t)) :
                            status[Subtasks(t)[i]] = "NOT_STARTED" =>
                                runs[Subtasks(t)[i]] = 0

\* an action settled CANCELLED while its first command was running; the
\* second command was left NOT_STARTED
C9_Witness ==
    /\ tree.shape = "action"
    /\ tree.n >= 2
    /\ status[ActionSeq] = "CANCELLED"
    /\ status[Cmd(1)] = "CANCELLED"
    /\ status[Cmd(2)] = "NOT_STARTED"

\* C10: when run has returned, the status is SUCCESS after a normal return
\* of the body, CANCELLED after the cancellation signal and FAILURE after
\* the failure signal, and that status has been announced; while the body
\* runs the announced status is WORKING.
C10_SettleByExit ==
    \A t \in Tasks :
        /\ pc[t] = "done" =>
              /\ exit[t] = "return" => status[t] = "SUCCESS"
              /\ exit[t] = "cancel" => status[t] = "CANCELLED"
              /\ exit[t] = "failure" => status[t] = "FAILURE"
              /\ exit[t] \in {"return", "cancel", "failure"}
              /\ notified[t] = status[t]
        /\ status[t] = "WORKING" => notified[t] = "WORKING"

\* an action has returned from run after its first command returned
\* normally and its second command raised the cancellation signal
C10_Witness ==
    /\ tree.shape = "action"
    /\ tree.n >= 2
    /\ pc[ActionSeq] = "done"
    /\ exit[Cmd(1)] = "return"
    /\ pc[Cmd(1)] = "done"
    /\ exit[Cmd(2)] = "cancel"
    /\ pc[Cmd(2)] = "done"

\* C11: once the root has been started it eventually reaches a terminal
\* status, and a dialog blocked in wait() eventually gets past it, when the
\* worker is scheduled fairly and every child process eventually exits.
C11_Termination ==
    /\ (pc[Root] # "idle") ~> (status[Root] \in Terminal)
    /\ (ui = "closing") ~> (ui = "closed")

DownloadNetworkErrors ==
    {"ContentTooShortError", "ConnectionError", "HTTPError", "URLError",
     "IncompleteRead"}

\* C12 as stated: when the cache holds the right archive, the body makes no
\* network call, leaves the file as it is, and returns normally, so that the
\* task settles SUCCESS.
C12_Original ==
    (cached = "cached_good" /\ BodyExited(DownloadTask)) =>
        /\ network_calls = 0
        /\ destination = "cached_good"
        /\ exit[DownloadTask] = "return"
        /\ pc[DownloadTask] = "done" => status[DownloadTask] = "SUCCESS"

\* C12 amended: when the cache holds the right archive, the body makes no
\* network call and leaves the file as it is; the task settles SUCCESS if
\* the file could be read for the integrity check, and FAILURE (with no
\* digest computed) if reading it failed with an OS error.
C12_CacheHit ==
    (cached = "cached_good" /\ BodyExited(DownloadTask)) =>
        /\ network_calls = 0
        /\ destination = "cached_good"
        /\ \/ exit[DownloadTask] = "return" /\ file_hash = "match"
           \/ exit[DownloadTask] = "failure" /\ file_hash = "none"
        /\ pc[DownloadTask] = "done" =>
              status[DownloadTask] =
                 (IF file_hash = "match" THEN "SUCCESS" ELSE "FAILURE")

\* the task settled SUCCESS on the cached archive although cancellation had
\* been requested: the cache-hit path ran to its end without the network
C12_Witness ==
    /\ cached = "cached_good"
    /\ pc[DownloadTask] = "done"
    /\ status[DownloadTask] = "SUCCESS"
    /\ file_source = "cached"
    /\ network_calls = 0

\* C13: once the body has exited with a digest that differs from the
\* expected hash (file downloaded or cached), it has raised the failure
\* signal, the destination file does not exist, and the task settles FAILURE.
C13_MismatchDeleted ==
    (file_hash = "mismatch" /\ BodyExited(DownloadTask)) =>
        /\ exit[DownloadTask] = "failure"
        /\ destination = "absent"
        /\ pc[DownloadTask] = "done" => status[DownloadTask] = "FAILURE"

\* C14: once the body has exited after the transfer was aborted, the
\* destination file does not exist; the body raised the failure signal if
\* the transfer ended by a network error and the cancellation signal if the
\* progress callback observed the flag.
C14_TransferAbort ==
    (raised # "none" /\ BodyExited(DownloadTask)) =>
        /\ destination = "absent"
        /\ raised \in DownloadNetworkErrors => exit[DownloadTask] = "failure"
        /\ raised = "TaskCancelledException" => exit[DownloadTask] = "cancel"

\* C15: every value handed to report_progress is indeterminate or a
\* fraction between 0 and 1.
C15_ProgressRange ==
    progress.kind = "fraction" =>
        (0 <= progress.num /\ progress.num <= progress.den)

\* C20: no leaf body is left by an exception other than the failure signal
\* and the cancellation signal.
C20_NoRawError == \A t \in Tasks : exit[t] # "raise"

\* C16: while a sound archive of N members is extracted, the k-th progress
\* report is (k-1)/N, so the reports never decrease; a member is extracted
\* only after the flag was polled for it; and when the body returns, N >= 1
\* reports were made and the last one is (N-1)/N.
C16_ExtractionProgress ==
    /\ [](ValidArchive =>
            /\ reports <= member_count
            /\ extracted <= reports /\ reports <= polls
            /\ progress.kind = "fraction" =>
                  progress = Fraction(reports - 1, member_count)
            /\ (exit[ExtractTask] = "return" /\ member_count >= 1) =>
                  /\ reports = member_count
                  /\ extracted = member_count
                  /\ progress = Fraction(member_count - 1, member_count))
    /\ [][ValidArchive =>
            /\ (progress.kind = "fraction" /\ progress'.kind = "fraction") =>
                  progress.num * progress'.den <= progress'.num * progress.den
            /\ extracted' = extracted + 1 => polls = extracted + 1]_vars

\* a sound archive of at least two members was extracted to the end
C16_Witness ==
    /\ ValidArchive
    /\ member_count >= 2
    /\ pc[ExtractTask] = "done"
    /\ status[ExtractTask] = "SUCCESS"
    /\ extracted = member_count
    /\ progress = Fraction(member_count - 1, member_count)

\* C17: an operation whose operand count is wrong for its kind (zero
\* operands included) makes no filesystem call, and the body that reached
\* it ends with the failure signal, so that the task settles FAILURE
C17_OperandCheck ==
    \A i \in 1..Len(file_operations) :
        WrongCount(file_operations[i]) =>
            /\ i \notin attempted
            /\ (BodyExited(FileOpsTask) /\ op_index = i
                    /\ exit[FileOpsTask] # "cancel")
                   => exit[FileOpsTask] = "failure"
            /\ (pc[FileOpsTask] = "done" /\ op_index = i
                    /\ exit[FileOpsTask] # "cancel")
                   => status[FileOpsTask] = "FAILURE"

\* the operations run_impl has a branch for, among the first n of the list
Executable(n) ==
    {j \in 1..n : Lower(file_operations[j].name) \in OperationKinds}

\* C18: the operations are executed in list order, each after a poll of
\* the flag made for it; once the flag was observed the task settles
\* CANCELLED and no later operation is executed; a filesystem error on
\* operation i settles the task FAILURE, the operations after i are never
\* executed and those before i stay applied
C18_Ordering ==
    /\ [](/\ \A j, k \in 1..Len(applied) : j < k => applied[j] < applied[k]
          /\ attempted \subseteq 1..op_index
          /\ exit[FileOpsTask] = "cancel" =>
                /\ attempted \subseteq 1..(op_index - 1)
                /\ pc[FileOpsTask] = "done"
                       => status[FileOpsTask] = "CANCELLED"
          /\ failed_op # 0 =>
                /\ exit[FileOpsTask] = "failure"
                /\ op_index = failed_op
                /\ {applied[j] : j \in 1..Len(applied)}
                       = Executable(failed_op - 1)
                /\ pc[FileOpsTask] = "done"
                       => status[FileOpsTask] = "FAILURE")
    /\ [][/\ attempted' # attempted =>
                /\ attempted' = attempted \cup {op_index}
                /\ op_index \notin attempted
                /\ fo_polls = op_index
          /\ exit[FileOpsTask] \in {"cancel", "failure"} =>
                /\ attempted' = attempted
                /\ applied' = applied]_vars

\* the second operation met a filesystem error: the first stays applied,
\* the third was never executed, the task settled FAILURE
C18_Witness ==
    /\ Len(file_operations) = 3
    /\ ~WrongCount(file_operations[3])
    /\ failed_op = 2
    /\ applied = <<1>>
    /\ attempted = {1, 2}
    /\ status[FileOpsTask] = "FAILURE"

\* the identifiers of a sequence of calls, each once, in first-marked order
RECURSIVE FirstMarked(_)
FirstMarked(calls) ==
    IF calls = <<>> THEN <<>>
    ELSE IF calls[Len(calls)] \in Elements(SubSeq(calls, 1, Len(calls) - 1))
    THEN FirstMarked(SubSeq(calls, 1, Len(calls) - 1))
    ELSE Append(FirstMarked(SubSeq(calls, 1, Len(calls) - 1)),
                calls[Len(calls)])

\* C19: after any sequence of mark_project_dependency_done calls the
\* persisted done list holds each marked identifier exactly once, in
\* first-marked order, and marking an identifier marked before leaves the
\* file unchanged
C19_Idempotent ==
    /\ [](get_project_dependencies_done = FirstMarked(marked))
    /\ [][(marked' # marked /\ marked'[Len(marked')] \in Elements(marked))
             => UNCHANGED <<done_exists, done_text>>]_vars

\* every dependency directory exists in the environment
AllDependenciesPresent == tree.shape = "setup" /\ tree.missing = {}

\* no download, extraction or file-operation task is in a sequence, and
\* none of them was ever run
NoDependencyWork ==
    \A i \in 1..tree.n :
        /\ Subtasks(Dep(i)) = <<>>
        /\ \A t \in {Download(i), Extract(i), FileOps(i)} :
              /\ runs[t] = 0
              /\ status[t] = "NOT_STARTED"

\* C21 as stated: with every dependency directory present the dependency
\* sequence holds no download, extraction or file-operation task, does no
\* such work and settles SUCCESS
C21_Original ==
    AllDependenciesPresent =>
        /\ NoDependencyWork
        /\ pc[DepsSeq] = "done" => status[DepsSeq] = "SUCCESS"

\* C21: with every dependency directory present the dependency sequence
\* holds no download, extraction or file-operation task and does no such
\* work; it settles FAILURE if the environment directory or its .gitignore
\* could not be written, CANCELLED if the flag was seen before one of the
\* (empty) dependency sequences was run, and SUCCESS otherwise
C21_Idempotent ==
    AllDependenciesPresent =>
        /\ NoDependencyWork
        /\ pc[DepsSeq] = "done" =>
              status[DepsSeq] =
                  IF preFailed[DepsSeq] THEN "FAILURE"
                  ELSE IF observed[DepsSeq] THEN "CANCELLED"
                  ELSE "SUCCESS"

\* two dependencies, both present: the sequence ran and settled SUCCESS
C21_Witness ==
    /\ AllDependenciesPresent
    /\ tree.n = 2
    /\ pc[DepsSeq] = "done"
    /\ status[DepsSeq] = "SUCCESS"
    /\ status[Dep(1)] = "SUCCESS"
    /\ status[Dep(2)] = "SUCCESS"

\* the download of the second dependency found a digest other than the
\* expected one and its body has been left
SecondFailsHashCheck ==
    /\ tree = ThreeDepsTree
    /\ file_hash = "mismatch"
    /\ BodyExited(SecondDownload)

\* C22: when the second of three dependencies fails its hash check, the
\* three tasks of the first dependency are SUCCESS, the cache entry of the
\* second does not exist, no task of the third dependency and no later
\* subtask of the root has left NOT_STARTED, and the root settles FAILURE
C22_EndToEnd ==
    SecondFailsHashCheck =>
        /\ \A t \in {Download(1), Extract(1), FileOps(1), Dep(1)} :
              status[t] = "SUCCESS"
        /\ destination = "absent"
        /\ \A t \in {Dep(3), Download(3), Extract(3), FileOps(3), RepoTask,
                     RomCopy, ProjectFile} : status[t] = "NOT_STARTED"
        /\ pc[RootSeq] \notin {"idle", "launched", "aborted"}
        /\ pc[RootSeq] = "done" => status[RootSeq] = "FAILURE"

\* the phases of repository setup, in the order of run_impl
RepoPhases == <<"clone", "copy", "checkout">>

\* the phases begin in order, each at most once
PhasesInOrder ==
    /\ Len(phases) <= Len(RepoPhases)
    /\ phases = SubSeq(RepoPhases, 1, Len(phases))

\* the copy begins only after a clone that exited with status 0, the
\* checkout only after a copy without error, and neither after the flag
\* was seen set
PhaseGuards ==
    /\ (Len(phases) = 1 /\ Len(phases') = 2) =>
           /\ clone_exit = 0
           /\ ~observed[RepoTask]
           /\ ~interrupted[RepoTask]
    /\ (Len(phases) = 2 /\ Len(phases') = 3) =>
           /\ copy_result = "ok"
           /\ ~observed[RepoTask]

\* C23 as stated: the phases run in order under their guards, and a
\* non-zero exit status of the clone or of the checkout settles the task
\* FAILURE
C23_Original ==
    /\ [](/\ PhasesInOrder
          /\ (pc[RepoTask] = "done"
                 /\ (clone_exit \notin {NoExit, 0}
                        \/ checkout_exit \notin {NoExit, 0}))
                => status[RepoTask] = "FAILURE")
    /\ [][PhaseGuards]_vars

\* C23: the phases run in order clone, copy, checkout; the copy begins only
\* after a clone that exited with status 0 and the checkout only after a
\* copy without error, neither after the flag was seen set; a non-zero exit
\* status of the clone or of the checkout settles the task FAILURE, unless
\* the flag is set when the exit status is examined: then it is CANCELLED
C23_RepoPhases ==
    /\ [](/\ PhasesInOrder
          /\ (pc[RepoTask] = "done"
                 /\ (clone_exit \notin {NoExit, 0}
                        \/ checkout_exit \notin {NoExit, 0}))
                => status[RepoTask] =
                       IF observed[RepoTask] THEN "CANCELLED" ELSE "FAILURE")
    /\ [][PhaseGuards]_vars

\* the three phases ran and the checkout exited with a non-zero status
C23_Witness ==
    /\ phases = RepoPhases
    /\ clone_exit = 0
    /\ copy_result = "ok"
    /\ checkout_exit = 1
    /\ ~observed[RepoTask]
    /\ status[RepoTask] = "FAILURE"

\* C24: when cancel is requested while the clone child is running, the
\* task in the end settles CANCELLED (having sent the interrupt, unless
\* the child exited by itself), whatever the child does
C24_CloneCancel ==
    (/\ cancel_requested[RepoTask]
     /\ phases = <<"clone">>
     /\ proc[RepoTask] = "running")
        ~> (status[RepoTask] = "CANCELLED")

\* ------------------------------------------------ claims on external commands
\* the command tasks of the tree
CommandTasks == {t \in Tasks : BodyEntry(t) = "spawn"}

\* C25: a command task leaves its body only after the child has exited, and
\* the exit it leaves with is decided by the cancellation flag as it stands at
\* that step, whatever the exit status, and only then by the exit status: a
\* set flag gives CANCELLED, else a non-zero status gives FAILURE, else
\* SUCCESS; the settled status is the one of that exit
C25_CommandOutcome ==
    /\ [][\A t \in CommandTasks :
            (pc[t] \in {"spawn", "poll", "pwait"} /\ pc'[t] = "settle") =>
                /\ proc[t] = "exited"
                /\ exit'[t] = IF cancel_requested[t] THEN "cancel"
                              ELSE IF exitStatus[t] # 0 THEN "failure"
                              ELSE "return"]_vars
    /\ [](\A t \in CommandTasks :
            (pc[t] = "done" /\ proc[t] = "exited") =>
                status[t] = CASE exit[t] = "cancel" -> "CANCELLED"
                              [] exit[t] = "failure" -> "FAILURE"
                              [] exit[t] = "return" -> "SUCCESS"
                              [] OTHER -> "NONE")

\* a command whose child exited with status 0 without ever being interrupted
\* settled CANCELLED (the flag was set after the exit), and another settled
\* FAILURE on a non-zero status
C25_Witness ==
    /\ tree.shape = "action"
    /\ tree.n >= 1
    /\ status[Cmd(1)] = "CANCELLED"
    /\ proc[Cmd(1)] = "exited"
    /\ exitStatus[Cmd(1)] = 0
    /\ ~interrupted[Cmd(1)]

\* the notifications that reached or will reach the signals of the action
\* task, in order
Received == relayed \o posted

\* C26: when the polling loop has seen the flag with the child running, the
\* interrupt is sent only in a step after the one that disconnected
\* signal_stderr; no stderr line the child wrote after the interrupt reaches
\* a subscriber, while every stdout line emitted is passed on; and a command
\* that sent the interrupt leaves its body only once the child has exited,
\* and settles CANCELLED
C26_CancelOrder ==
    /\ [][\A i \in 1..tree.n :
            (~interrupted[Cmd(i)] /\ interrupted'[Cmd(i)]) =>
                /\ ~stderrConnected[Cmd(i)]
                /\ cancel_requested[Cmd(i)]
                /\ proc[Cmd(i)] \in {"running", "exited"}]_vars
    /\ [][\A i \in 1..tree.n :
            (interrupted[Cmd(i)] /\ pc[Cmd(i)] = "pwait"
                /\ pc'[Cmd(i)] # "pwait") =>
                /\ proc[Cmd(i)] = "exited"
                /\ exit'[Cmd(i)] = "cancel"]_vars
    /\ [](\A k \in 1..Len(Received) :
            ~(Received[k].kind = "stderr" /\ Received[k].late))
    /\ [](\A k \in 1..Len(emitted) :
            emitted[k].e.kind = "stdout" => emitted[k].connected)
    /\ [](\A i \in 1..tree.n :
            (interrupted[Cmd(i)] /\ pc[Cmd(i)] = "done") =>
                status[Cmd(i)] = "CANCELLED")

\* the first command was interrupted and settled CANCELLED; its child wrote
\* a line to each stream after the interrupt: the stdout line was re-emitted
\* by the action task, the stderr line was emitted to no receiver
C26_Witness ==
    /\ tree.shape = "action"
    /\ tree.n >= 1
    /\ interrupted[Cmd(1)]
    /\ status[Cmd(1)] = "CANCELLED"
    /\ \E k \in 1..Len(relayed) :
          relayed[k].task = 1 /\ relayed[k].kind = "stdout" /\ relayed[k].late
    /\ \E k \in 1..Len(emitted) :
          /\ emitted[k].e.task = 1
          /\ emitted[k].e.kind = "stderr"
          /\ emitted[k].e.late
          /\ ~emitted[k].connected

\* the emissions of the command tasks made while the signal had a receiver
ConnectedEmissions == SelectSeq(emitted, LAMBDA k : k.connected)

\* the action has one subtask per command, the i-th a hidden command task
\* for the i-th command with its three signals connected, and the
\* new-command notification of the i-th subtask carries the i-th command
ActionStructure ==
    /\ Len(Subtasks(Root)) = Len(commands)
    /\ \A i \in 1..Len(commands) :
          /\ Subtasks(Root)[i] = ActionSubtasks(commands)[i].task
          /\ ActionSubtasks(commands)[i].command = commands[i]
          /\ ActionSubtasks(commands)[i].hidden
          /\ ActionSubtasks(commands)[i].connected
                = {"new_command", "stdout", "stderr"}
    /\ \A k \in 1..Len(emitted) :
          emitted[k].e.kind = "new_command" =>
              emitted[k].e.payload = commands[emitted[k].e.task]

\* each command's new-command notification precedes the output lines of
\* that command, among the emissions and among the re-emissions
CommandFirst ==
    /\ \A k \in 1..Len(emitted) :
          emitted[k].e.kind \in {"stdout", "stderr"} =>
              \E j \in 1..(k - 1) :
                  /\ emitted[j].e.kind = "new_command"
                  /\ emitted[j].e.task = emitted[k].e.task
    /\ \A k \in 1..Len(relayed) :
          relayed[k].kind \in {"stdout", "stderr"} =>
              \E j \in 1..(k - 1) :
                  /\ relayed[j].kind = "new_command"
                  /\ relayed[j].task = relayed[k].task

\* C27 as stated: the structure of the action, and every notification a
\* subtask emitted is passed to the action task with the same payload and
\* in the same order
C27_Original ==
    /\ tree.shape = "action" => ActionStructure
    /\ CommandFirst
    /\ Received = [k \in 1..Len(emitted) |-> emitted[k].e]

\* C27 (amended): the structure of the action; every notification a subtask
\* emitted is passed to the action task with the same payload and in the
\* same order, except the stderr lines a command emits after it has
\* disconnected its stderr signal on cancellation, which are passed to
\* nobody; each command's new-command notification precedes its output
C27_ActionRelay ==
    /\ tree.shape = "action" => ActionStructure
    /\ CommandFirst
    /\ Received = [k \in 1..Len(ConnectedEmissions) |-> ConnectedEmissions[k].e]
    /\ \A k \in 1..Len(emitted) :
          ~emitted[k].connected =>
              /\ emitted[k].e.kind = "stderr"
              /\ ~stderrConnected[Cmd(emitted[k].e.task)]
              /\ cancel_requested[Cmd(emitted[k].e.task)]

\* an action of two different commands: the action task re-emitted the
\* new-command notification and a stdout line of the first command, then
\* the new-command notification of the second, and a stderr line of the
\* second, emitted after the disconnect, was passed to nobody
C27_Witness ==
    /\ tree.shape = "action"
    /\ tree.n = 2
    /\ commands[1] # commands[2]
    /\ Len(relayed) = 3
    /\ relayed[1] = Notification(1, "new_command", commands[1], FALSE)
    /\ relayed[2].kind = "stdout" /\ relayed[2].task = 1
    /\ relayed[3] = Notification(2, "new_command", commands[2], FALSE)
    /\ \E k \in 1..Len(emitted) :
          /\ emitted[k].e.kind = "stderr"
          /\ emitted[k].e.task = 2
          /\ ~emitted[k].connected

\* the worker thread of every task of the tree has finished, or was never
\* started
ThreadsFinished == \A t \in Tasks : pc[t] \in {"idle", "done"}

\* C28: deleteLater() is called on a task, or on the dialog that owns it,
\* only after the worker thread of the task has finished
C28_DisposalJoin == disposed => ThreadsFinished

\* the exceptions the except clauses around urlretrieve name
HandledErrors ==
    {"TaskCancelledException", "ContentTooShortError", "ConnectionError",
     "HTTPError", "URLError"}

\* C29: an exception of a kind no except clause names leaves the body as it
\* is; the task it left, and the sequences above it, do not settle (no
\* FAILURE, no CANCELLED, no SUCCESS), and the only step that follows is the
\* top-level handler reporting the fatal error and ending the run
C29_Propagates ==
    /\ []((raised \notin HandledErrors \cup {"none"}) =>
            exit[DownloadTask] = "raise")
    /\ [](\A t \in Tasks :
            exit[t] = "raise" =>
                /\ pc[t] \in {"raise", "aborted"}
                /\ pc[t] = "aborted" => ui = "aborted"
                /\ \A a \in {t} \cup Ancestors(t) : status[a] = "WORKING")
    /\ [][\A t \in Tasks :
            (pc[t] = "raise" /\ pc'[t] # "raise") =>
                /\ pc'[t] = "aborted"
                /\ ui' = "aborted"
                /\ status' = status]_vars

\* urlretrieve was left with an IncompleteRead, which no clause names: the
\* run was aborted with the download task and the sequences above it still
\* WORKING
C29_Witness ==
    /\ raised = "IncompleteRead"
    /\ pc[DownloadTask] = "aborted"
    /\ ui = "aborted"
    /\ status[DownloadTask] = "WORKING"
    /\ status[Root] = "WORKING"

\* the position of task x in the sequence seq, 0 if it is not in it
Position(seq, x) ==
    IF \E k \in 1..Len(seq) : seq[k] = x
    THEN CHOOSE k \in 1..Len(seq) : seq[k] = x
    ELSE 0

\* the order get_setup_task and the new-project page give the setup tree
SetupOrder ==
    LET top == Subtasks(RootSeq)
    IN  /\ top[1] = DepsSeq
        /\ Subtasks(DepsSeq) = [i \in 1..tree.n |-> Dep(i)]
        /\ \A i \in 1..tree.n :
              Subtasks(Dep(i)) =
                  IF i \in tree.missing
                  THEN <<Download(i), Extract(i), FileOps(i)>>
                  ELSE <<>>
        /\ Position(top, RepoTask) = IF tree.from_repo THEN 0 ELSE 2
        /\ Position(top, RomCopy) =
              IF tree.rom THEN 0 ELSE IF tree.from_repo THEN 2 ELSE 3
        /\ Position(top, ProjectFile) =
              IF tree.from_repo THEN 0 ELSE Len(top)
        /\ Len(top) = 1 + (IF tree.from_repo THEN 0 ELSE 2)
                        + (IF tree.rom THEN 0 ELSE 1)

\* C30: the setup tree holds the dependency sequence (per dependency to set
\* up: download, extraction, file operations), then the repository setup
\* unless the repository exists, then the ROM copy unless the ROM is in
\* place, then, in the new-project flow, the project-file creation; the
\* extraction of a dependency has not started unless its download settled
\* SUCCESS, and the project-file creation has not started unless the
\* repository setup settled SUCCESS
C30_TreeOrder ==
    tree.shape = "setup" =>
        /\ SetupOrder
        /\ \A i \in 1..tree.n :
              (status[Extract(i)] # "NOT_STARTED" \/ pc[Extract(i)] # "idle")
                  => status[Download(i)] = "SUCCESS"
        /\ (status[ProjectFile] # "NOT_STARTED" \/ pc[ProjectFile] # "idle")
              => status[RepoTask] = "SUCCESS"

\* a new project with a dependency to set up and no ROM in place: the
\* extraction of the dependency and the project-file creation both ran
C30_Witness ==
    /\ tree.shape = "setup"
    /\ tree.n >= 1
    /\ 1 \in tree.missing
    /\ ~tree.from_repo
    /\ ~tree.rom
    /\ status[Extract(1)] = "SUCCESS"
    /\ status[RomCopy] = "SUCCESS"
    /\ status[ProjectFile] = "WORKING"

\* the environment directory, every dependency directory and the base ROM
\* of the project all exist on the filesystem d
EverythingExists(d) ==
    /\ d.env
    /\ \A i \in 1..d.dependencies : i \in d.deps
    /\ d.rom

\* the start page has just routed an opened project
RoutedFromStart ==
    /\ history # <<>>
    /\ history[Len(history)] = "START"
    /\ project_context = "project_dir"

\* C31: existing_project_requires_setup returns False exactly when the
\* environment directory, every dependency directory and the base ROM all
\* exist; whenever it returns False, get_setup_task(from_existing_repo=True)
\* on the same filesystem has no leaf task; and the start page routes to
\* the project actions page only when no setup work remains
C31_NoWorkRemains ==
    /\ (~existing_project_requires_setup(disk)) <=> EverythingExists(disk)
    /\ ~existing_project_requires_setup(disk)
         => SetupLeaves(get_setup_task(disk, TRUE)) = {}
    /\ (RoutedFromStart /\ page = "PROJECT_ACTIONS")
         => /\ requires_setup = "no"
            /\ SetupLeaves(get_setup_task(disk, TRUE)) = {}

\* an opened project with every dependency in place is routed to its actions
C31_Witness ==
    /\ RoutedFromStart
    /\ page = "PROJECT_ACTIONS"
    /\ disk.dependencies = MaxDeps
    /\ disk.deps = 1..MaxDeps

\* C32: the Cancel button of the setup progress page requests cancellation
\* on the root only if the root is WORKING and cancellation was not yet
\* requested; a press while the root is NOT_STARTED, SUCCESS or CANCELLED
\* changes nothing; a press while the root is FAILURE and not cancelled
\* takes the cancelled-handling path without calling cancel
C32_CancelButton ==
    [][(tree.shape = "setup" /\ ui = "running") =>
          /\ cancelSets' # cancelSets =>
                /\ status[Root] = "WORKING"
                /\ ~cancel_requested[Root]
                /\ ui' = ui
          /\ status[Root] \in {"NOT_STARTED", "SUCCESS", "CANCELLED"} =>
                /\ UNCHANGED <<cancel_requested, cancelSets>>
                /\ ui' # "restarted"
          /\ ui' = "restarted" =>
                /\ status[Root] = "FAILURE"
                /\ ~cancel_requested[Root]
                /\ UNCHANGED <<cancel_requested, cancelSets>>
          /\ (cancel_button /\ status[Root] = "FAILURE"
                /\ ~cancel_requested[Root]) => ui' = "restarted"]_vars

\* Cancel was pressed on a failed root nobody had cancelled
C32_Witness ==
    /\ tree.shape = "setup"
    /\ ui = "restarted"
    /\ status[Root] = "FAILURE"
    /\ \A t \in Tasks : ~cancel_requested[t] /\ cancelSets[t] = 0

\* the base ROM page was initialised for a project opened from the start
\* page (the title could not be made where the page is "fatal")
BaseromPageForRepo ==
    /\ page \in {"SETUP_BASEROM", "fatal"}
    /\ setup_context.setup_from_repo

\* C40: whenever the base ROM page is initialised with setup_from_repo
\* true, setup_context.project_path is set and is the directory of the
\* project being opened, never unset and never the path of an earlier
\* new-project flow
C40_ProjectPath ==
    BaseromPageForRepo =>
        /\ setup_context.project_path # "none"
        /\ setup_context.project_path = project_context

\* C39: no operation of a file-operation sequence is silently skipped:
\* a task that settled SUCCESS has performed every operation of its list,
\* each of them a copy, move or delete; an operation of another kind never
\* lets the task go on to SUCCESS without effect
C39_NoSilentSkip ==
    status[FileOpsTask] = "SUCCESS" =>
        \A i \in 1..Len(file_operations) :
            /\ Lower(file_operations[i].name) \in OperationKinds
            /\ \E k \in 1..Len(applied) : applied[k] = i

\* the environment as the extraction task of dependency 1 leaves it: the
\* directory of the dependency exists unless the output path is absent
EnvironmentAfterRun ==
    [env |-> TRUE, deps |-> IF output = "absent" THEN {} ELSE {1},
     rom |-> FALSE, cached |-> TRUE, dependencies |-> 1]

\* C34: get_setup_task omits the tasks of a dependency only if the
\* dependency completed its steps before: after a run that was cancelled
\* or failed during the extraction of a dependency, the next
\* get_setup_task on the same environment still schedules the dependency
C34_SkipSoundness ==
    status[ExtractTask] \in {"CANCELLED", "FAILURE"} =>
        1 \in get_setup_task(EnvironmentAfterRun, TRUE).missing

\* C35: in every state of the setup progress page in which the root has
\* settled FAILURE, a press of Cancel returns the wizard to its start
\* page, also when cancellation had been requested on the root while it
\* was WORKING
C35_CancelAfterFailure ==
    (tree.shape = "setup" /\ ui = "running" /\ status[Root] = "FAILURE") =>
        ENABLED (cancel_button /\ ui' = "restarted")

\* C36: a root task on which cancel was requested while it was WORKING
\* never settles SUCCESS afterwards, whichever leaf was running or pending
\* at the time of the request
C36_CancelledNeverSucceeds ==
    (tree.shape = "setup" /\ cancel_requested[Root]) =>
        status[Root] # "SUCCESS"

\* task_run_command has returned, or was never reached
HelperReturned ==
    pc[ProjectFile] \in {"pf_check", "settle", "done", "raise", "aborted"}

\* C37: task_run_command terminates for every child that terminates when
\* its output is consumed: with no cancellation requested it returns the
\* exit status, also when the child writes more than the pipe can hold
C37_HelperTerminates ==
    ([] ~cancel_requested[ProjectFile]) => <>HelperReturned

\* C33: on the new-project page, a cleanup task that deletes the project
\* directory is started exactly once for a run, and only after the root
\* settled CANCELLED or a FAILURE was dismissed; the wizard restarts only
\* after that cleanup task has settled SUCCESS or FAILURE
C33_CleanupOnce ==
    /\ Len(cleanup_task) <= 1
    /\ cleanup_task # <<>> => status[Root] \in {"CANCELLED", "FAILURE"}
    /\ ui = "restarted" =>
          /\ cleanup_task # <<>>
          /\ Settled(cleanup_task[Len(cleanup_task)])

\* the worker thread of the root has finished: every task it ran has
\* settled and no body is being executed
WorkerFinished ==
    /\ pc[Root] = "done"
    /\ status[Root] \in Terminal
    /\ \A t \in Tasks : pc[t] \in {"idle", "done"}

\* C38: the cleanup task never runs concurrently with work of the setup
\* tree: whenever a cleanup task exists, the worker thread of the setup
\* root has finished every action of the run
C38_NoConcurrentCleanup ==
    cleanup_task # <<>> => WorkerFinished

\* a cleanup task is deleting the project directory after a leaf of the
\* tree was cancelled in the middle of its work
C38_Witness ==
    /\ cleanup_task = <<"WORKING">>
    /\ status[Root] = "CANCELLED"
    /\ \E t \in Tasks : t[1] \in LeafKinds /\ status[t] = "CANCELLED"

====
